---- MODULE Spec2Model ----
(***************************************************************************)
(* Enemy navigation and tactical AI core of the arcade shooter:            *)
(*   Pathfinding (static grid, A* search, path cache)                      *)
(*     src/src/Actors/enemies/utils/Pathfinding.ts                         *)
(*   HideAndShootBehavior (cover / peek / shoot)                           *)
(*     src/src/Actors/enemies/behaviors/HideAndShootBehavior.ts            *)
(*                                                                         *)
(* Numbers.  World positions are pixel vectors; the model draws them from  *)
(* integer points, so distances are compared through their squares, which  *)
(* is exact.  A* costs are sums of 1 and Math.SQRT2; the model keeps them  *)
(* exactly as pairs [a, b] standing for a + b*sqrt(2).  Date.now() is read  *)
(* once per call of findPath (the call is far shorter than a millisecond). *)
(***************************************************************************)
EXTENDS Integers, Sequences, FiniteSets, TLC

VARIABLES
    now,                \* Date.now(), in ms
    gameConfig,         \* GameConfig.width / GameConfig.height
    obstacles,          \* the Obstacle actors of engine.currentScene
    grid,               \* Pathfinding.grid (boolean[][] | null)
    gridWidth,          \* Pathfinding.gridWidth
    gridHeight,         \* Pathfinding.gridHeight
    lastObstacleUpdate, \* Pathfinding.lastObstacleUpdate
    pathCache,          \* Pathfinding.pathCache, a Map in insertion order
    hist,               \* the last findPath calls, most recent first
    calls,              \* number of findPath calls made
    loads,              \* number of scene changes made
    rebuilds,           \* number of forced grid rebuilds made
    sweep,              \* position of the key sweep (SpecFill only)
    player,             \* the Player actor of the scene, present or not
    enemies,            \* the tactical Enemy actors: pos, vel, behavior
    behaviors,          \* the HideAndShootBehavior instances: their fields
    projectiles,        \* the Projectile actors added by enemies
    frame,              \* the engine frame: its number and its delta
    pending,            \* enemies whose onPreUpdate has not run this frame
    updating,           \* the enemy inside onPreUpdate, 0 when none
    upd,                \* the most recent behaviour update call
    sinceShot,          \* tick time since each enemy's last shot
    shotGap,            \* tick time between each enemy's last two shots
    steer,              \* the last direct call of getDirectionToGoal,
                        \* applyObstacleAvoidance or moveTo
    levelScene          \* the Level scene's fields, the LevelManager's level
                        \* and the engine's current and requested scene

vars == <<now, gameConfig, obstacles, grid, gridWidth, gridHeight,
          lastObstacleUpdate, pathCache, hist, calls, loads, rebuilds, sweep,
          player, enemies, behaviors, projectiles, frame, pending, updating,
          upd, sinceShot, shotGap, steer, levelScene>>

pathVars == <<grid, gridWidth, gridHeight, lastObstacleUpdate, pathCache>>

tacVars == <<player, enemies, behaviors, projectiles, frame, pending, updating,
             upd, sinceShot, shotGap, steer, levelScene>>

-----------------------------------------------------------------------------
(* Program constants *)

CellSize == 16
ObstaclePadding == 8
ObstacleUpdateInterval == 500
CacheTimeout == 200
CacheDistanceThreshold == 20
CacheLimit == 50
MaxRadius == 5

(* Bounds of the model *)

PathWorldWidth == 64
PathWorldHeight == 64
MaxNow == 401
MaxCalls == 2
MaxLoads == 1
MaxRebuilds == 1
MaxSweepTime == 201
SweepBatch == 32
MaxSearchCalls == 1
MaxSearchDoublings == 8
TacticalWorldWidth == 192
TacticalWorldHeight == 192
MaxLevel == 2
MaxFrames == 2
SearchWorldWidth == 96
SearchWorldHeight == 96
CoverWorldWidth == 256
CoverWorldHeight == 256
MaxLevelLoads == 1
MaxAvoidPaths == 1
MaxDirectionCalls == 2
MaxLookAhead == 2
MoveWorldWidth == 128
MoveWorldHeight == 80
MaxMoveCalls == 2
EdgeWorldWidth == 64
EdgeWorldHeight == 64
MaxEdgeCalls == 2
MaxStage == 4
MaxHits == 3
GridWorldWidth == 96
GridWorldHeight == 96
MaxGridNow == 502
MaxGridCalls == 2

-----------------------------------------------------------------------------
(* Vectors and exact arithmetic *)

Abs(n) == IF n < 0 THEN -n ELSE n
Max(a, b) == IF a > b THEN a ELSE b
Min(a, b) == IF a < b THEN a ELSE b

Vec(x, y) == [x |-> x, y |-> y]

\* Vector.distance, squared
Dist2(p, q) == (p.x - q.x) * (p.x - q.x) + (p.y - q.y) * (p.y - q.y)

\* a + b*sqrt(2)
Cost(a, b) == [a |-> a, b |-> b]
CostAdd(c, d) == Cost(c.a + d.a, c.b + d.b)

\* c < d for c = a + b*sqrt(2): the sign of p + q*sqrt(2), decided on integers
CostLess(c, d) ==
    LET p == c.a - d.a
        q == c.b - d.b
    IN  IF p <= 0 /\ q <= 0 THEN p < 0 \/ q < 0
        ELSE IF p >= 0 /\ q >= 0 THEN FALSE
        ELSE IF p < 0 THEN 2 * q * q < p * p
        ELSE p * p < 2 * q * q

-----------------------------------------------------------------------------
(* Pathfinding: the grid *)

NullGrid == [null |-> TRUE]

\* collider.bounds of an Obstacle actor [x, y, w, h], in half pixels
BoundsLeft2(o) == 2 * o.x - o.w
BoundsRight2(o) == 2 * o.x + o.w
BoundsTop2(o) == 2 * o.y - o.h
BoundsBottom2(o) == 2 * o.y + o.h

\* Math.ceil(width / cellSize)
GridDim(size) == (size + CellSize - 1) \div CellSize

\* the cells under one obstacle, without the padding
CoveredByUnpadded(o, gw, gh, x, y) ==
    LET minX == Max(0, BoundsLeft2(o) \div (2 * CellSize))
        maxX == Min(gw - 1, BoundsRight2(o) \div (2 * CellSize))
        minY == Max(0, BoundsTop2(o) \div (2 * CellSize))
        maxY == Min(gh - 1, BoundsBottom2(o) \div (2 * CellSize))
    IN  minX <= x /\ x <= maxX /\ minY <= y /\ y <= maxY

\* the cells buildGrid marks unwalkable for one obstacle
CoveredBy(o, gw, gh, x, y) ==
    LET minX == Max(0, (BoundsLeft2(o) - 2 * ObstaclePadding) \div (2 * CellSize))
        maxX == Min(gw - 1, (BoundsRight2(o) + 2 * ObstaclePadding) \div (2 * CellSize))
        minY == Max(0, (BoundsTop2(o) - 2 * ObstaclePadding) \div (2 * CellSize))
        maxY == Min(gh - 1, (BoundsBottom2(o) + 2 * ObstaclePadding) \div (2 * CellSize))
    IN  minX <= x /\ x <= maxX /\ minY <= y /\ y <= maxY

\* buildGrid: a fresh grid, all walkable, then every obstacle's padded cells cleared
BuildGrid(obs, width, height) ==
    LET gw == GridDim(width)
        gh == GridDim(height)
    IN  [grid |-> [null |-> FALSE,
                   cells |-> [y \in 0..(gh - 1) |->
                                [x \in 0..(gw - 1) |->
                                    ~ \E o \in obs : CoveredBy(o, gw, gh, x, y)]]],
         gridWidth |-> gw,
         gridHeight |-> gh]

\* the static fields the search reads
Nav(g, gw, gh) == [grid |-> g, gridWidth |-> gw, gridHeight |-> gh]

\* ensureGridUpdated with a rebuild as soon as the interval is reached
EnsureGridUpdatedAtInterval(N, last, obs, cfg, t) ==
    IF N.grid.null \/ t - last >= ObstacleUpdateInterval
    THEN [nav |-> BuildGrid(obs, cfg.width, cfg.height), last |-> t, rebuilt |-> TRUE]
    ELSE [nav |-> N, last |-> last, rebuilt |-> FALSE]

\* ensureGridUpdated
EnsureGridUpdated(N, last, obs, cfg, t) ==
    IF N.grid.null \/ t - last > ObstacleUpdateInterval
    THEN [nav |-> BuildGrid(obs, cfg.width, cfg.height), last |-> t, rebuilt |-> TRUE]
    ELSE [nav |-> N, last |-> last, rebuilt |-> FALSE]

WorldToGrid(p) == [x |-> p.x \div CellSize, y |-> p.y \div CellSize]

GridToWorld(gx, gy) ==
    Vec(gx * CellSize + CellSize \div 2, gy * CellSize + CellSize \div 2)

\* isWalkable without the test of the bounds
IsWalkableFailOpen(N, x, y) ==
    IF N.grid.null
    THEN FALSE
    ELSE IF x < 0 \/ x >= N.gridWidth \/ y < 0 \/ y >= N.gridHeight
    THEN TRUE
    ELSE N.grid.cells[y][x]

IsWalkable(N, x, y) ==
    IF x < 0 \/ x >= N.gridWidth \/ y < 0 \/ y >= N.gridHeight \/ N.grid.null
    THEN FALSE
    ELSE N.grid.cells[y][x]

Directions ==
    << <<-1, -1>>, <<0, -1>>, <<1, -1>>, <<-1, 0>>,
       <<1, 0>>, <<-1, 1>>, <<0, 1>>, <<1, 1>> >>

\* the cells around a cell that lie on the grid, walkable or not
GetNeighborsAll(N, c) ==
    LET all == [i \in 1..Len(Directions) |->
                    <<c[1] + Directions[i][1], c[2] + Directions[i][2]>>]
    IN  SelectSeq(all, LAMBDA n : /\ n[1] >= 0 /\ n[1] < N.gridWidth
                                  /\ n[2] >= 0 /\ n[2] < N.gridHeight)

\* getNeighbors: the walkable cells around a cell, in the order of directions
GetNeighbors(N, c) ==
    LET all == [i \in 1..Len(Directions) |->
                    <<c[1] + Directions[i][1], c[2] + Directions[i][2]>>]
    IN  SelectSeq(all, LAMBDA n : IsWalkable(N, n[1], n[2]))

\* the Manhattan distance, which overestimates a diagonal step
HeuristicManhattan(c, goal) ==
    Cost(Abs(c[1] - goal[1]) + Abs(c[2] - goal[2]), 0)

\* heuristic: max(dx,dy) + (sqrt(2) - 1) * min(dx,dy)
Heuristic(c, goal) ==
    LET dx == Abs(c[1] - goal[1])
        dy == Abs(c[2] - goal[2])
    IN  Cost(Max(dx, dy) - Min(dx, dy), Min(dx, dy))

\* diagonal movement costs Math.SQRT2, orthogonal 1
MoveCost(from, to) ==
    IF Abs(to[1] - from[1]) = 1 /\ Abs(to[2] - from[2]) = 1
    THEN Cost(0, 1)
    ELSE Cost(1, 0)

-----------------------------------------------------------------------------
(* Pathfinding: the A* search.  The open set is the array of the code, held
   as the sequence of its nodes' cells; nodes maps each cell that has a
   GridNode to that node's g, h, f and parent (<<>> for null).  A cell gets
   at most one GridNode: a neighbour is pushed only when it is neither closed
   nor already in the open set. *)

\* the scan for the lowest f score: a later node wins only when strictly lower
RECURSIVE LowestF(_, _, _, _)
LowestF(openSet, nodes, i, currentIndex) ==
    IF i > Len(openSet) THEN currentIndex
    ELSE IF CostLess(nodes[openSet[i]].f, nodes[openSet[currentIndex]].f)
         THEN LowestF(openSet, nodes, i + 1, i)
         ELSE LowestF(openSet, nodes, i + 1, currentIndex)

\* openSet.splice(index, 1)
RemoveAt(s, i) == SubSeq(s, 1, i - 1) \o SubSeq(s, i + 1, Len(s))

\* the walk over the parent links with push in place of unshift
RECURSIVE ReconstructPathAppend(_, _, _)
ReconstructPathAppend(nodes, c, acc) ==
    IF c = <<>>
    THEN acc
    ELSE ReconstructPathAppend(nodes, nodes[c].parent,
                               Append(acc, GridToWorld(c[1], c[2])))

\* walk the parent links back to the start, unshifting cell centres
RECURSIVE ReconstructPath(_, _, _)
ReconstructPath(nodes, c, acc) ==
    LET acc1 == <<GridToWorld(c[1], c[2])>> \o acc
    IN  IF nodes[c].parent = <<>>
        THEN acc1
        ELSE ReconstructPath(nodes, nodes[c].parent, acc1)

\* the neighbour update without the look into the open set: a neighbour that
\* is not closed is pushed
RelaxNeighborAlwaysPush(n, current, goal, openSet, closedSet, nodes) ==
    LET tentativeG == CostAdd(nodes[current].g, MoveCost(current, n))
        node == [g |-> tentativeG, h |-> Heuristic(n, goal),
                 f |-> CostAdd(tentativeG, Heuristic(n, goal)), parent |-> current]
    IN  IF n \in closedSet
        THEN [open |-> openSet, nodes |-> nodes]
        ELSE [open |-> Append(openSet, n),
              nodes |-> [c \in DOMAIN nodes \cup {n} |->
                            IF c = n THEN node ELSE nodes[c]]]

\* one neighbour of the current node: pushed, improved, or left alone
RelaxNeighbor(n, current, goal, openSet, closedSet, nodes) ==
    LET tentativeG == CostAdd(nodes[current].g, MoveCost(current, n))
        existingOpen == \E j \in 1..Len(openSet) : openSet[j] = n
    IN  IF n \in closedSet
        THEN [open |-> openSet, nodes |-> nodes]
        ELSE IF ~existingOpen
        THEN [open |-> Append(openSet, n),
              nodes |-> nodes @@ (n :> [g |-> tentativeG,
                                        h |-> Heuristic(n, goal),
                                        f |-> CostAdd(tentativeG, Heuristic(n, goal)),
                                        parent |-> current])]
        ELSE IF CostLess(tentativeG, nodes[n].g)
        THEN [open |-> openSet,
              nodes |-> [nodes EXCEPT ![n] = [g |-> tentativeG,
                                              h |-> @.h,
                                              f |-> CostAdd(tentativeG, @.h),
                                              parent |-> current]]]
        ELSE [open |-> openSet, nodes |-> nodes]

\* the loop over the neighbours of the current node
RECURSIVE CheckNeighbors(_, _, _, _, _, _, _)
CheckNeighbors(neighbors, i, current, goal, openSet, closedSet, nodes) ==
    IF i > Len(neighbors) THEN [open |-> openSet, nodes |-> nodes]
    ELSE LET r == RelaxNeighbor(neighbors[i], current, goal, openSet, closedSet, nodes)
         IN  CheckNeighbors(neighbors, i + 1, current, goal, r.open, closedSet, r.nodes)

\* one pass of the main loop, while (openSet.length > 0), on the state of the
\* search; a finished search is left as it is
SearchStep(N, goal, st) ==
    IF st.done
    THEN st
    ELSE IF Len(st.open) = 0
    THEN [st EXCEPT !.done = TRUE]
    ELSE LET currentIndex == LowestF(st.open, st.nodes, 2, 1)
             current == st.open[currentIndex]
             open1 == RemoveAt(st.open, currentIndex)
             closed1 == st.closed \cup {current}
             expanded1 == Append(st.expanded, current)
         IN  IF current = goal
             THEN [done |-> TRUE, found |-> TRUE,
                   path |-> ReconstructPath(st.nodes, current, <<>>),
                   open |-> open1, closed |-> closed1, nodes |-> st.nodes,
                   expanded |-> expanded1]
             ELSE LET r == CheckNeighbors(GetNeighbors(N, current), 1, current, goal,
                                          open1, closed1, st.nodes)
                  IN  [done |-> FALSE, found |-> FALSE, path |-> <<>>,
                       open |-> r.open, closed |-> closed1, nodes |-> r.nodes,
                       expanded |-> expanded1]

\* up to 2^k passes of the main loop, the second half only when the first
\* half has not finished the search
RECURSIVE SearchSteps(_, _, _, _)
SearchSteps(N, goal, st, k) ==
    IF k = 0
    THEN SearchStep(N, goal, st)
    ELSE LET half == SearchSteps(N, goal, st, k - 1)
         IN  IF half.done THEN half ELSE SearchSteps(N, goal, half, k - 1)

\* the search before the main loop: the open set holds the start node, the
\* closed set is empty
StartState(startCell, goalCell) ==
    LET h == Heuristic(startCell, goalCell)
        startNode == [g |-> Cost(0, 0), h |-> h, f |-> CostAdd(Cost(0, 0), h),
                      parent |-> <<>>]
    IN  [done |-> FALSE, found |-> FALSE, path |-> <<>>,
         open |-> <<startCell>>, closed |-> {},
         nodes |-> (startCell :> startNode), expanded |-> <<>>]

\* the search of findPath from the start node
AStar(N, startCell, goalCell) ==
    SearchSteps(N, goalCell, StartState(startCell, goalCell), MaxSearchDoublings)

\* the first walkable cell of one ring of findNearestWalkable: the loops run
\* dx ascending and, within one dx, dy ascending
FirstInRing(N, x, y, radius) ==
    LET ring == { d \in (-radius..radius) \X (-radius..radius) :
                    /\ Abs(d[1]) = radius \/ Abs(d[2]) = radius
                    /\ IsWalkable(N, x + d[1], y + d[2]) }
    IN  IF ring = {}
        THEN [found |-> FALSE, x |-> x, y |-> y]
        ELSE LET d == CHOOSE d \in ring :
                        \A e \in ring : d[1] < e[1] \/ (d[1] = e[1] /\ d[2] <= e[2])
             IN  [found |-> TRUE, x |-> x + d[1], y |-> y + d[2]]

\* findNearestWalkable: rings of growing radius, the first walkable cell wins
RECURSIVE SpiralScan(_, _, _, _)
SpiralScan(N, x, y, radius) ==
    IF radius > MaxRadius THEN [found |-> FALSE, x |-> x, y |-> y]
    ELSE IF FirstInRing(N, x, y, radius).found THEN FirstInRing(N, x, y, radius)
    ELSE SpiralScan(N, x, y, radius + 1)

FindNearestWalkable(N, x, y) == SpiralScan(N, x, y, 1)

\* the start or goal cell findPath searches with: the cell itself when walkable
Endpoint(N, p) ==
    LET c == WorldToGrid(p)
    IN  IF IsWalkable(N, c.x, c.y)
        THEN [found |-> TRUE, x |-> c.x, y |-> c.y]
        ELSE FindNearestWalkable(N, c.x, c.y)

-----------------------------------------------------------------------------
(* Pathfinding: the path cache, a Map kept as the sequence of its entries in
   insertion order *)

\* getCacheKey
CacheKey(start, goal) ==
    <<WorldToGrid(start).x, WorldToGrid(start).y,
      WorldToGrid(goal).x, WorldToGrid(goal).y>>

\* pathCache.get: the index of the key's entry, 0 when there is none
CacheIndex(cache, key) ==
    IF \E i \in 1..Len(cache) : cache[i].key = key
    THEN CHOOSE i \in 1..Len(cache) : cache[i].key = key
    ELSE 0

\* isCacheValid without the age test
IsCacheValidNoTimeout(cached, start, goal, t) ==
    /\ Dist2(cached.start, start) < CacheDistanceThreshold * CacheDistanceThreshold
    /\ Dist2(cached.goal, goal) < CacheDistanceThreshold * CacheDistanceThreshold

\* isCacheValid
IsCacheValid(cached, start, goal, t) ==
    IF t - cached.timestamp > CacheTimeout
    THEN FALSE
    ELSE /\ Dist2(cached.start, start) < CacheDistanceThreshold * CacheDistanceThreshold
         /\ Dist2(cached.goal, goal) < CacheDistanceThreshold * CacheDistanceThreshold

\* pathCache.set: an existing key keeps its place, a new key goes last
CacheSet(cache, entry) ==
    LET i == CacheIndex(cache, entry.key)
    IN  IF i = 0 THEN Append(cache, entry) ELSE [cache EXCEPT ![i] = entry]

\* "Limit cache size": past the limit the first key of the Map is deleted
LimitCache(cache) == IF Len(cache) > CacheLimit THEN Tail(cache) ELSE cache

CacheEntry(key, start, goal, path, t) ==
    [key |-> key, start |-> start, goal |-> goal, path |-> path, timestamp |-> t]

\* the branch of findPath that returns the cached path
ServedFromCache(cache, start, goal, t) ==
    LET i == CacheIndex(cache, CacheKey(start, goal))
    IN  /\ i # 0
        /\ IsCacheValid(cache[i], start, goal, t)
        /\ Len(cache[i].path) > 0
        /\ ~ (Dist2(start, cache[i].path[1]) >
                (CacheDistanceThreshold * 2) * (CacheDistanceThreshold * 2))

-----------------------------------------------------------------------------
(* findPath: the new static fields and the returned path *)

NoCell == <<>>

FindPathResult(e, cache, path, fromCache, searched, sc, gc, expanded) ==
    [nav |-> e.nav, last |-> e.last, rebuilt |-> e.rebuilt, cache |-> cache,
     path |-> path, fromCache |-> fromCache, searched |-> searched,
     startCell |-> sc, goalCell |-> gc, expanded |-> expanded]

FindPath(N0, last0, cache, obs, cfg, t, start, goal) ==
    LET e == EnsureGridUpdated(N0, last0, obs, cfg, t)
        N == e.nav
        key == CacheKey(start, goal)
    IN  IF N.grid.null
        THEN FindPathResult(e, cache, <<>>, FALSE, FALSE, NoCell, NoCell, <<>>)
        ELSE IF ServedFromCache(cache, start, goal, t)
        THEN FindPathResult(e, cache, cache[CacheIndex(cache, key)].path,
                            TRUE, FALSE, NoCell, NoCell, <<>>)
        ELSE LET s == Endpoint(N, start)
                 g == Endpoint(N, goal)
             IN  IF ~s.found
                 THEN FindPathResult(e, cache, <<>>, FALSE, FALSE, NoCell, NoCell, <<>>)
                 ELSE IF ~g.found
                 THEN FindPathResult(e, cache, <<>>, FALSE, FALSE, <<s.x, s.y>>, NoCell, <<>>)
                 ELSE LET r == AStar(N, <<s.x, s.y>>, <<g.x, g.y>>)
                      IN  IF r.found
                          THEN FindPathResult(e,
                                   LimitCache(CacheSet(cache,
                                       CacheEntry(key, start, goal, r.path, t))),
                                   r.path, FALSE, TRUE, <<s.x, s.y>>, <<g.x, g.y>>,
                                   r.expanded)
                          ELSE FindPathResult(e,
                                   CacheSet(cache, CacheEntry(key, start, goal, <<>>, t)),
                                   <<>>, FALSE, TRUE, <<s.x, s.y>>, <<g.x, g.y>>,
                                   r.expanded)

-----------------------------------------------------------------------------
(* The scene and the clock *)

\* new Obstacle(new Vector(x, y), w, h)
Obstacle(x, y, w, h) == [x |-> x, y |-> y, w |-> w, h |-> h]

\* a wall across the middle columns, top to bottom
MiddleWall == Obstacle(32, 32, 10, 64)
\* two small blocks that close the corner cell (0, 0) in
BlockTop == Obstacle(32, 8, 8, 8)
BlockLeft == Obstacle(8, 32, 8, 8)
\* a block over the three left columns
BigLeft == Obstacle(16, 32, 32, 64)
\* a block over the whole world
Full == Obstacle(32, 32, 64, 64)
\* a block over the four middle cells
CenterBlock == Obstacle(32, 32, 8, 8)

\* the obstacle sets a scene is loaded with
Layouts == { {}, {MiddleWall}, {BigLeft}, {Full} }

\* the start and goal points of the findPath calls: two starts in one cell and
\* more than the cache distance apart, and a start inside the walls; the same
\* for the goals
StartPoints == { Vec(0, 0), Vec(15, 15), Vec(24, 40) }
GoalPoints == { Vec(48, 48), Vec(63, 63), Vec(40, 24) }

\* the time that passes between two operations, in ms
TickSteps == {200, 201}

\* what a findPath call was given, what it found in the cache under its key
\* (before), what it returned and the grid it left (nav)
CallRecord(start, goal, t, cache, forced, r) ==
    [start |-> start, goal |-> goal, at |-> t, path |-> r.path,
     fromCache |-> r.fromCache, searched |-> r.searched,
     startCell |-> r.startCell, goalCell |-> r.goalCell, rebuilt |-> r.rebuilt,
     nav |-> r.nav, forced |-> forced,
     before |-> IF CacheIndex(cache, CacheKey(start, goal)) = 0
                THEN <<>>
                ELSE <<cache[CacheIndex(cache, CacheKey(start, goal))]>>]

\* the two most recent calls
Remember(h, c) == IF Len(h) = 0 THEN <<c>> ELSE <<c, h[1]>>

\* the engine before any scene is current
NoLevelScene ==
    [name |-> "", goTo |-> "", currentLevel |-> 1, activeEnemies |-> 0,
     isLevelComplete |-> FALSE, isGameOver |-> FALSE, killed |-> FALSE,
     cards |-> FALSE, timer |-> FALSE, health |-> MaxHits, playerHealth |-> MaxHits]

\* a scene without player and enemies: only Pathfinding is exercised
NoTacticalScene ==
    /\ player = [present |-> FALSE, pos |-> Vec(0, 0)]
    /\ enemies = <<>>
    /\ behaviors = <<>>
    /\ projectiles = <<>>
    /\ frame = [n |-> 0, delta |-> 0]
    /\ pending = {}
    /\ updating = 0
    /\ upd = <<>>
    /\ steer = <<>>
    /\ levelScene = NoLevelScene
    /\ sinceShot = <<>>
    /\ shotGap = <<>>

Init ==
    /\ now = 0
    /\ gameConfig = [width |-> PathWorldWidth, height |-> PathWorldHeight]
    /\ obstacles \in Layouts
    /\ grid = NullGrid
    /\ gridWidth = 0
    /\ gridHeight = 0
    /\ lastObstacleUpdate = 0
    /\ pathCache = <<>>
    /\ hist = <<>>
    /\ calls = 0
    /\ loads = 0
    /\ rebuilds = 0
    /\ sweep = 0
    /\ NoTacticalScene

\* time passes; the clock counts from the first use of Pathfinding, before which
\* no field depends on the time
Tick(dt) ==
    /\ ~ grid.null
    /\ now + dt <= MaxNow
    /\ now' = now + dt
    /\ UNCHANGED <<gameConfig, obstacles, pathVars, hist, calls, loads, rebuilds, sweep>>
    /\ UNCHANGED tacVars

\* a level is activated: the scene is cleared and its obstacles are added (the
\* scenes loaded before the first use of Pathfinding are the choice of Init)
LoadScene(layout) ==
    /\ ~ grid.null
    /\ loads < MaxLoads
    /\ layout # obstacles
    /\ obstacles' = layout
    /\ loads' = loads + 1
    /\ UNCHANGED <<now, gameConfig, pathVars, hist, calls, rebuilds, sweep>>
    /\ UNCHANGED tacVars

\* Pathfinding.rebuildGrid(engine)
RebuildGrid ==
    LET b == BuildGrid(obstacles, gameConfig.width, gameConfig.height)
    IN  /\ rebuilds < MaxRebuilds
        /\ rebuilds' = rebuilds + 1
        /\ grid' = b.grid
        /\ gridWidth' = b.gridWidth
        /\ gridHeight' = b.gridHeight
        /\ lastObstacleUpdate' = now
        /\ UNCHANGED <<now, gameConfig, obstacles, pathCache, hist, calls, loads, sweep>>
        /\ UNCHANGED tacVars

\* the effect of Pathfinding.findPath(start, goal, engine) on the static fields
DoFindPath(start, goal) ==
    LET r == FindPath(Nav(grid, gridWidth, gridHeight), lastObstacleUpdate, pathCache,
                      obstacles, gameConfig, now, start, goal)
    IN  /\ grid' = r.nav.grid
        /\ gridWidth' = r.nav.gridWidth
        /\ gridHeight' = r.nav.gridHeight
        /\ lastObstacleUpdate' = r.last
        /\ pathCache' = r.cache
        /\ hist' = Remember(hist, CallRecord(start, goal, now, pathCache, rebuilds, r))

\* Pathfinding.findPath(start, goal, engine)
CallFindPath(start, goal) ==
    /\ calls < MaxCalls
    /\ DoFindPath(start, goal)
    /\ calls' = calls + 1
    /\ UNCHANGED <<now, gameConfig, obstacles, loads, rebuilds, sweep>>
    /\ UNCHANGED tacVars

Next ==
    \/ \E dt \in TickSteps : Tick(dt)
    \/ \E layout \in Layouts : LoadScene(layout)
    \/ RebuildGrid
    \/ \E start \in StartPoints, goal \in GoalPoints : CallFindPath(start, goal)

Spec == Init /\ [][Next]_vars

-----------------------------------------------------------------------------
(* SpecSearch: single searches over many grids, starts and goals *)

\* a wall over columns 2-3 from the top down to row 3
WallTop == Obstacle(48, 24, 8, 40)
\* a wall over columns 3-4 from row 2 down to the bottom
WallBottom == Obstacle(64, 72, 8, 40)
\* a bar over rows 2-3 from the left edge to column 4
Bar == Obstacle(40, 48, 56, 8)
\* a block over the whole search world
FullSearch == Obstacle(48, 48, 96, 96)

SearchLayouts ==
    { {}, {CenterBlock}, {WallTop}, {Bar}, {WallTop, Bar}, {BlockTop, BlockLeft},
      {BlockTop, WallBottom}, {WallBottom, BlockLeft}, {FullSearch} }

SearchPoints ==
    { Vec(8, 8), Vec(88, 8), Vec(8, 88), Vec(88, 88), Vec(8, 40), Vec(88, 56),
      Vec(40, 8), Vec(56, 88), Vec(40, 40), Vec(72, 24), Vec(24, 72) }

InitSearch ==
    /\ now = 0
    /\ gameConfig = [width |-> SearchWorldWidth, height |-> SearchWorldHeight]
    /\ obstacles \in SearchLayouts
    /\ grid = NullGrid
    /\ gridWidth = 0
    /\ gridHeight = 0
    /\ lastObstacleUpdate = 0
    /\ pathCache = <<>>
    /\ hist = <<>>
    /\ calls = 0
    /\ loads = 0
    /\ rebuilds = 0
    /\ sweep = 0
    /\ NoTacticalScene

\* Pathfinding.findPath(start, goal, engine), on a grid built by this call
SearchFindPath(start, goal) ==
    /\ calls < MaxSearchCalls
    /\ DoFindPath(start, goal)
    /\ calls' = calls + 1
    /\ UNCHANGED <<now, gameConfig, obstacles, loads, rebuilds, sweep>>
    /\ UNCHANGED tacVars

NextSearch ==
    \E start \in SearchPoints, goal \in SearchPoints : SearchFindPath(start, goal)

SpecSearch == InitSearch /\ [][NextSearch]_vars

-----------------------------------------------------------------------------
(* SpecFill: the cache is filled by a sweep over every (start cell, goal cell)
   key of the grid, in batches of calls made at one time; between two batches
   time may pass and the first key of the sweep may be asked for again *)

FillLayouts == { {}, {MiddleWall} }

NumCells == GridDim(PathWorldWidth) * GridDim(PathWorldHeight)

\* the centre of the i-th cell, row by row
SweepPoint(i) == GridToWorld(i % GridDim(PathWorldWidth), i \div GridDim(PathWorldWidth))

SweepStart(k) == SweepPoint(k \div NumCells)
SweepGoal(k) == SweepPoint(k % NumCells)

InitFill ==
    /\ now = 0
    /\ gameConfig = [width |-> PathWorldWidth, height |-> PathWorldHeight]
    /\ obstacles \in FillLayouts
    /\ grid = NullGrid
    /\ gridWidth = 0
    /\ gridHeight = 0
    /\ lastObstacleUpdate = 0
    /\ pathCache = <<>>
    /\ hist = <<>>
    /\ calls = 0
    /\ loads = 0
    /\ rebuilds = 0
    /\ sweep = 0
    /\ NoTacticalScene

\* findPath for the next key of the sweep
SweepFindPath ==
    /\ sweep < NumCells * NumCells
    /\ DoFindPath(SweepStart(sweep), SweepGoal(sweep))
    /\ sweep' = sweep + 1
    /\ UNCHANGED <<now, gameConfig, obstacles, calls, loads, rebuilds>>
    /\ UNCHANGED tacVars

\* findPath for the first key of the sweep, once more
SweepAgain ==
    /\ sweep > 0
    /\ sweep % SweepBatch = 0
    /\ DoFindPath(SweepStart(0), SweepGoal(0))
    /\ UNCHANGED <<now, gameConfig, obstacles, calls, loads, rebuilds, sweep>>
    /\ UNCHANGED tacVars

\* time passes between two batches
SweepTick(dt) ==
    /\ sweep > 0
    /\ sweep % SweepBatch = 0
    /\ now + dt <= MaxSweepTime
    /\ now' = now + dt
    /\ UNCHANGED <<gameConfig, obstacles, pathVars, hist, calls, loads, rebuilds, sweep>>
    /\ UNCHANGED tacVars

NextFill ==
    \/ SweepFindPath
    \/ SweepAgain
    \/ \E dt \in TickSteps : SweepTick(dt)

SpecFill == InitFill /\ [][NextFill]_vars

-----------------------------------------------------------------------------
(* SpecGrid: the life of the grid.  Obstacles come and go, time passes up to
   and past the rebuild interval, the grid is rebuilt by findPath calls and by
   rebuildGrid *)

\* a block whose padded rectangle ends between two cell centres
OffGrid == Obstacle(36, 36, 16, 16)
\* a block whose padded rectangle ends on cell centres
OnGrid == Obstacle(40, 40, 16, 16)

GridLayouts ==
    { {}, {CenterBlock}, {OffGrid}, {OnGrid}, {MiddleWall}, {WallTop, Bar},
      {OffGrid, Bar}, {FullSearch} }

GridTickSteps == {250, 251}
GridStartPoints == { Vec(8, 8) }
GridGoalPoints == { Vec(88, 88), Vec(40, 40) }

InitGrid ==
    /\ now = 0
    /\ gameConfig = [width |-> GridWorldWidth, height |-> GridWorldHeight]
    /\ obstacles \in GridLayouts
    /\ grid = NullGrid
    /\ gridWidth = 0
    /\ gridHeight = 0
    /\ lastObstacleUpdate = 0
    /\ pathCache = <<>>
    /\ hist = <<>>
    /\ calls = 0
    /\ loads = 0
    /\ rebuilds = 0
    /\ sweep = 0
    /\ NoTacticalScene

\* time passes, up to and past the rebuild interval
GridTick(dt) ==
    /\ ~ grid.null
    /\ now + dt <= MaxGridNow
    /\ now' = now + dt
    /\ UNCHANGED <<gameConfig, obstacles, pathVars, hist, calls, loads, rebuilds, sweep>>
    /\ UNCHANGED tacVars

\* Pathfinding.findPath(start, goal, engine)
GridFindPath(start, goal) ==
    /\ calls < MaxGridCalls
    /\ DoFindPath(start, goal)
    /\ calls' = calls + 1
    /\ UNCHANGED <<now, gameConfig, obstacles, loads, rebuilds, sweep>>
    /\ UNCHANGED tacVars

NextGrid ==
    \/ \E dt \in GridTickSteps : GridTick(dt)
    \/ \E layout \in GridLayouts : LoadScene(layout)
    \/ RebuildGrid
    \/ \E start \in GridStartPoints, goal \in GridGoalPoints : GridFindPath(start, goal)

SpecGrid == InitGrid /\ [][NextGrid]_vars

-----------------------------------------------------------------------------
(* EnemyTypes, EnemyFactory, Enemy *)

CoverDistance == 40
PeekDistance == 50
ShootCooldown == 800
MoveSpeed == 200
ObstacleSize == 64
RecoverDistance == 200
Deadzone == 5
PathfindingDistance == 100
AvoidanceRadius == 35

\* Vector.Zero as a velocity
ZeroVel == [zero |-> TRUE, from |-> Vec(0, 0), to |-> Vec(0, 0), speed |-> 0, flagged |-> {}]

\* to.sub(from).normalize().scale(speed): the velocity is kept as the two
\* points that give its direction, and its magnitude
Toward(from, to, speed) ==
    [zero |-> FALSE, from |-> from, to |-> to, speed |-> speed, flagged |-> {}]

\* the fields of a new HideAndShootBehavior()
NewHideAndShootBehavior == [currentObstacle |-> <<>>, currentCooldown |-> 0]

\* the registry: each entry holds the one behaviour object built when the
\* registry was; the object is named after its entry
EnemyTypes ==
    [TACTICAL_SHOOTER |-> [id |-> "tactical_shooter", behavior |-> "TACTICAL_SHOOTER"]]

GetEnemyConfig(typeId) == EnemyTypes[typeId]

\* new Enemy(position, config)
NewEnemy(position, config) ==
    [pos |-> position, vel |-> ZeroVel, behavior |-> config.behavior]

\* EnemyFactory.createFromConfig
CreateFromConfig(config, position) == NewEnemy(position, config)

\* EnemyFactory.create
Create(typeId, position) == CreateFromConfig(GetEnemyConfig(typeId), position)

-----------------------------------------------------------------------------
(* ObstacleAvoidance, as far as the behaviour sees it: which obstacles are
   flagged; the steered velocity keeps the magnitude of the desired one and
   is kept as the desired velocity with the obstacles it is steered by *)

Dot(ax, ay, bx, by) == ax * bx + ay * by

\* detectObstaclesAhead
DetectObstaclesAhead(pos, desired, obs) ==
    IF desired.zero
    THEN {}
    ELSE { o \in obs :
             /\ Dist2(pos, o) <= AvoidanceRadius * AvoidanceRadius
             /\ \/ Dot(desired.to.x - desired.from.x, desired.to.y - desired.from.y,
                       o.x - pos.x, o.y - pos.y) > 0
                \/ 25 * Dist2(pos, o) <= 9 * AvoidanceRadius * AvoidanceRadius }

\* applyObstacleAvoidance
ApplyObstacleAvoidance(pos, desired, obs) ==
    LET flagged == DetectObstaclesAhead(pos, desired, obs)
    IN  IF flagged = {} THEN desired ELSE [desired EXCEPT !.flagged = flagged]

-----------------------------------------------------------------------------
(* HideAndShootBehavior *)

Sign(n) == IF n > 0 THEN 1 ELSE IF n < 0 THEN -1 ELSE 0

\* Vector.normalize, for the vectors along an axis that the scenes give
Normalize(v) == Vec(Sign(v.x), Sign(v.y))

\* the scene's actors in the order they were added; the scenes modelled here
\* add their obstacles in the order of their positions (x, then y)
ActorOrder(obs) ==
    LET key(o) == o.x * 100000 + o.y
        RECURSIVE Ordered(_)
        Ordered(S) ==
            IF S = {} THEN <<>>
            ELSE LET o == CHOOSE a \in S : \A c \in S : key(a) <= key(c)
                 IN  <<o>> \o Ordered(S \ {o})
    IN  Ordered(obs)

\* the loop over the obstacles without "Skip walls"
RECURSIVE FindBestCoverFromAnySize(_, _, _, _)
FindBestCoverFromAnySize(pos, actors, i, bestObstacle) ==
    IF i > Len(actors)
    THEN bestObstacle
    ELSE IF bestObstacle = <<>> \/ Dist2(pos, actors[i]) < Dist2(pos, bestObstacle[1])
    THEN FindBestCoverFromAnySize(pos, actors, i + 1, <<actors[i]>>)
    ELSE FindBestCoverFromAnySize(pos, actors, i + 1, bestObstacle)

\* findBestCover: the loop over the obstacles
RECURSIVE FindBestCoverFrom(_, _, _, _)
FindBestCoverFrom(pos, actors, i, bestObstacle) ==
    IF i > Len(actors)
    THEN bestObstacle
    ELSE IF actors[i].w # ObstacleSize \/ actors[i].h # ObstacleSize
    THEN FindBestCoverFrom(pos, actors, i + 1, bestObstacle)
    ELSE IF bestObstacle = <<>> \/ Dist2(pos, actors[i]) < Dist2(pos, bestObstacle[1])
    THEN FindBestCoverFrom(pos, actors, i + 1, <<actors[i]>>)
    ELSE FindBestCoverFrom(pos, actors, i + 1, bestObstacle)

FindBestCover(pos, obs) == FindBestCoverFrom(pos, ActorOrder(obs), 1, <<>>)

\* isExposed
IsExposed(enemy, playerPos, obstacle) == FALSE

\* step 2 of updateMovement: whether findBestCover is called
RunsFindBestCover(enemy, playerPos, currentObstacle) ==
    /\ currentObstacle = <<>> \/ IsExposed(enemy, playerPos, currentObstacle[1])
    /\ \/ currentObstacle = <<>>
       \/ Dist2(enemy.pos, currentObstacle[1]) > RecoverDistance * RecoverDistance

\* step 2 with a new selection in every tick
SelectObstacleAlways(enemy, playerPos, currentObstacle, obs) ==
    FindBestCover(enemy.pos, obs)

\* step 2 of updateMovement: the cover obstacle after the tick
SelectObstacle(enemy, playerPos, currentObstacle, obs) ==
    IF currentObstacle = <<>> \/ IsExposed(enemy, playerPos, currentObstacle[1])
    THEN IF currentObstacle = <<>>
         THEN FindBestCover(enemy.pos, obs)
         ELSE IF Dist2(enemy.pos, currentObstacle[1]) > RecoverDistance * RecoverDistance
         THEN FindBestCover(enemy.pos, obs)
         ELSE currentObstacle
    ELSE currentObstacle

\* calculateCoverPosition
CalculateCoverPosition(obstacle, playerPos) ==
    LET toObstacle == Normalize(Vec(obstacle.x - playerPos.x, obstacle.y - playerPos.y))
        dist == obstacle.w \div 2 + CoverDistance
    IN  Vec(obstacle.x + toObstacle.x * dist, obstacle.y + toObstacle.y * dist)

\* calculatePeekPosition
CalculatePeekPosition(obstacle, playerPos) ==
    LET toObstacle == Normalize(Vec(obstacle.x - playerPos.x, obstacle.y - playerPos.y))
        perp == Vec(-toObstacle.y, toObstacle.x)
        dist == obstacle.w \div 2 + PeekDistance
        coverSpot == CalculateCoverPosition(obstacle, playerPos)
    IN  Vec(coverSpot.x + perp.x * dist, coverSpot.y + perp.y * dist)

\* step 3 with the peek position only below a cooldown of 0
TargetPosBelowZero(currentObstacle, currentCooldown, playerPos) ==
    IF currentObstacle = <<>>
    THEN <<>>
    ELSE IF currentCooldown < 0
    THEN <<CalculatePeekPosition(currentObstacle[1], playerPos)>>
    ELSE <<CalculateCoverPosition(currentObstacle[1], playerPos)>>

\* step 3 of updateMovement: <<>> for no target
TargetPos(currentObstacle, currentCooldown, playerPos) ==
    IF currentObstacle = <<>>
    THEN <<>>
    ELSE IF currentCooldown <= 0
    THEN <<CalculatePeekPosition(currentObstacle[1], playerPos)>>
    ELSE <<CalculateCoverPosition(currentObstacle[1], playerPos)>>

\* getDirectionToGoal without "If we've reached the waypoint, use the next one"
DirectionWaypointNoAdvance(pos, path, lookAhead) ==
    IF Len(path) = 0
    THEN <<>>
    ELSE IF path[Min(lookAhead, Len(path) - 1) + 1] = pos
    THEN <<>>
    ELSE <<path[Min(lookAhead, Len(path) - 1) + 1]>>

\* Pathfinding.getDirectionToGoal, given the path findPath returned: the
\* waypoint the direction points to, <<>> for Vector.Zero
DirectionWaypoint(pos, path, lookAhead) ==
    IF Len(path) = 0
    THEN <<>>
    ELSE LET targetIndex == Min(lookAhead, Len(path) - 1)
             advanced ==
                 IF /\ 4 * Dist2(pos, path[targetIndex + 1]) < CellSize * CellSize
                    /\ Len(path) > targetIndex + 1
                 THEN targetIndex + 1
                 ELSE targetIndex
         IN  IF path[advanced + 1] = pos THEN <<>> ELSE <<path[advanced + 1]>>

\* moveTo calls the path planner beyond this distance
UsesPathfinding(pos, target) ==
    /\ ~ (Dist2(pos, target) < Deadzone * Deadzone)
    /\ Dist2(pos, target) > PathfindingDistance * PathfindingDistance

\* (mutant) moveTo with the deadzone's border inside it
MoveToDeadzoneInclusive(pos, target, path, obs) ==
    IF Dist2(pos, target) <= Deadzone * Deadzone
    THEN ZeroVel
    ELSE LET direct == Toward(pos, target, MoveSpeed)
             desiredVelocity ==
                 IF Dist2(pos, target) > PathfindingDistance * PathfindingDistance
                 THEN IF DirectionWaypoint(pos, path, 1) # <<>>
                      THEN Toward(pos, DirectionWaypoint(pos, path, 1)[1], MoveSpeed)
                      ELSE direct
                 ELSE direct
         IN  ApplyObstacleAvoidance(pos, desiredVelocity, obs)

\* moveTo: the velocity written to the enemy; path is what findPath returned
\* when it was called
MoveTo(pos, target, path, obs) ==
    IF Dist2(pos, target) < Deadzone * Deadzone
    THEN ZeroVel
    ELSE LET direct == Toward(pos, target, MoveSpeed)
             desiredVelocity ==
                 IF Dist2(pos, target) > PathfindingDistance * PathfindingDistance
                 THEN IF DirectionWaypoint(pos, path, 1) # <<>>
                      THEN Toward(pos, DirectionWaypoint(pos, path, 1)[1], MoveSpeed)
                      ELSE direct
                 ELSE direct
         IN  ApplyObstacleAvoidance(pos, desiredVelocity, obs)

\* hasLineOfSight that never looks at the hits
HasLineOfSightAlways(hits) == TRUE

\* hasLineOfSight, given the owners of the colliders the ray cast hit
HasLineOfSight(hits) == "Obstacle" \notin hits

\* new Projectile(enemy.pos.clone(), targetPos, undefined, true, speed)
NewProjectile(pos, targetPos) ==
    [pos |-> pos, target |-> targetPos, isEnemyProjectile |-> TRUE]

\* shootCooldown * (0.8 + Math.random() * 0.4), Math.random() in hundredths
ResetCooldown(random) == (ShootCooldown * (80 + (40 * random) \div 100)) \div 100

-----------------------------------------------------------------------------
(* SpecTactical: a level with tactical shooters, frame by frame.  In a frame
   the engine runs onPreUpdate of every enemy, in any order, and then moves
   the actors; the model lets a moving enemy either stay where it is or
   arrive at the point its velocity is directed to *)

\* a boundary wall along the left edge
LeftWall == Obstacle(5, 96, 10, 192)
\* the obstacle in the middle of the level
Cover == Obstacle(96, 96, ObstacleSize, ObstacleSize)

TacticalScenes == { {LeftWall, Cover}, {LeftWall} }
PlayerPositions == { Vec(96, 176), Vec(16, 96) }
\* where the level puts its e-th tactical shooter
EnemySpawn(e) == IF e % 2 = 1 THEN Vec(40, 24) ELSE Vec(168, 168)
FrameDeltas == { 200, 400 }
\* what the ray from the enemy to the player hit
RayHits == { {}, {"Player"}, {"Obstacle", "Player"} }
\* Math.random(), in hundredths
Randoms == { 0, 99 }

\* generateLevelConfig(level): level N has N enemies of each type
EnemyCount(level) == level

InitTactical ==
    /\ now = 0
    /\ gameConfig = [width |-> TacticalWorldWidth, height |-> TacticalWorldHeight]
    /\ obstacles \in TacticalScenes
    /\ grid = NullGrid
    /\ gridWidth = 0
    /\ gridHeight = 0
    /\ lastObstacleUpdate = 0
    /\ pathCache = <<>>
    /\ hist = <<>>
    /\ calls = 0
    /\ loads = 0
    /\ rebuilds = 0
    /\ sweep = 0
    /\ player \in [present : {TRUE}, pos : PlayerPositions]
    /\ \E level \in 1..MaxLevel :
         /\ enemies = [e \in 1..EnemyCount(level) |->
                          Create("TACTICAL_SHOOTER", EnemySpawn(e))]
         /\ sinceShot = [e \in 1..EnemyCount(level) |-> -1]
         /\ shotGap = [e \in 1..EnemyCount(level) |-> -1]
    /\ behaviors = [b \in { EnemyTypes[t].behavior : t \in DOMAIN EnemyTypes } |->
                       NewHideAndShootBehavior]
    /\ projectiles = <<>>
    /\ frame = [n |-> 0, delta |-> 0]
    /\ pending = {}
    /\ updating = 0
    /\ upd = <<>>
    /\ steer = <<>>
    /\ levelScene = NoLevelScene

\* the engine starts a frame
StartFrame(delta) ==
    /\ pending = {}
    /\ updating = 0
    /\ frame.n < MaxFrames
    /\ frame' = [n |-> frame.n + 1, delta |-> delta]
    /\ now' = now + delta
    /\ pending' = DOMAIN enemies
    /\ sinceShot' = [e \in DOMAIN sinceShot |->
                        IF sinceShot[e] < 0 THEN -1 ELSE sinceShot[e] + delta]
    /\ UNCHANGED <<gameConfig, obstacles, pathVars, hist, calls, loads, rebuilds, sweep>>
    /\ UNCHANGED <<player, enemies, behaviors, projectiles, updating, upd, shotGap, steer, levelScene>>

\* the engine has moved an enemy along its velocity
EngineMove(e) ==
    /\ pending = {}
    /\ updating = 0
    /\ frame.n > 0
    /\ ~enemies[e].vel.zero
    /\ enemies[e].vel.to # enemies[e].pos
    /\ enemies' = [enemies EXCEPT ![e].pos = enemies[e].vel.to]
    /\ UNCHANGED <<now, gameConfig, obstacles, pathVars, hist, calls, loads, rebuilds, sweep>>
    /\ UNCHANGED <<player, behaviors, projectiles, frame, pending, updating, upd,
                   sinceShot, shotGap, steer, levelScene>>

\* the player was killed and left the scene
PlayerDies ==
    /\ pending = {}
    /\ updating = 0
    /\ frame.n > 0
    /\ player.present
    /\ player' = [player EXCEPT !.present = FALSE]
    /\ UNCHANGED <<now, gameConfig, obstacles, pathVars, hist, calls, loads, rebuilds, sweep>>
    /\ UNCHANGED <<enemies, behaviors, projectiles, frame, pending, updating, upd,
                   sinceShot, shotGap, steer, levelScene>>

\* what a behaviour update call is remembered by: the enemy and where it
\* was, the behaviour fields, the projectiles and the player as the call found
\* them, the hits of its ray cast, whether it called findBestCover and the
\* target position it moved to (<<>> for none)
UpdateRecord(e, op, rayCast, findBestCover, targetPos) ==
    [enemy |-> e, op |-> op, pos |-> enemies[e].pos, behaviors |-> behaviors,
     projectiles |-> Len(projectiles), present |-> player.present,
     rayCast |-> rayCast, findBestCover |-> findBestCover, target |-> targetPos]

\* (mutant) the behaviour steps the enemy along the velocity itself
WriteVelAndStep(enemy, velocity) ==
    [enemy EXCEPT !.vel = velocity,
                  !.pos = IF velocity.zero THEN enemy.pos ELSE velocity.to]

\* enemy.vel = velocity, the one assignment the behaviour makes to the enemy
WriteVel(enemy, velocity) == [enemy EXCEPT !.vel = velocity]

\* Enemy.onPreUpdate, first half: behavior.updateMovement(enemy, engine, delta)
UpdateMovement(e) ==
    LET enemy == enemies[e]
        this == behaviors[enemy.behavior]
        cooldown == IF this.currentCooldown > 0
                    THEN this.currentCooldown - frame.delta
                    ELSE this.currentCooldown
        obstacle == SelectObstacle(enemy, player.pos, this.currentObstacle, obstacles)
        targetPos == TargetPos(obstacle, cooldown, player.pos)
        plans == /\ player.present
                 /\ targetPos # <<>>
                 /\ UsesPathfinding(enemy.pos, targetPos[1])
        r == FindPath(Nav(grid, gridWidth, gridHeight), lastObstacleUpdate, pathCache,
                      obstacles, gameConfig, now, enemy.pos, targetPos[1])
    IN  /\ updating = 0
        /\ e \in pending
        /\ pending' = pending \ {e}
        /\ updating' = e
        /\ upd' = <<UpdateRecord(e, "updateMovement", <<>>,
                                 /\ player.present
                                 /\ RunsFindBestCover(enemy, player.pos,
                                                      this.currentObstacle),
                                 IF player.present THEN targetPos ELSE <<>>)>>
        /\ IF ~player.present
           THEN /\ enemies' = [enemies EXCEPT ![e] = WriteVel(enemy, ZeroVel)]
                /\ UNCHANGED behaviors
           ELSE /\ behaviors' = [behaviors EXCEPT ![enemy.behavior] =
                                    [currentObstacle |-> obstacle,
                                     currentCooldown |-> cooldown]]
                /\ enemies' = [enemies EXCEPT ![e] = WriteVel(enemy,
                                  IF targetPos = <<>>
                                  THEN ZeroVel
                                  ELSE MoveTo(enemy.pos, targetPos[1],
                                              IF plans THEN r.path ELSE <<>>,
                                              obstacles))]
        /\ IF plans
           THEN /\ grid' = r.nav.grid
                /\ gridWidth' = r.nav.gridWidth
                /\ gridHeight' = r.nav.gridHeight
                /\ lastObstacleUpdate' = r.last
                /\ pathCache' = r.cache
                /\ hist' = Remember(hist, CallRecord(enemy.pos, targetPos[1], now,
                                                     pathCache, rebuilds, r))
           ELSE UNCHANGED <<pathVars, hist>>
        /\ UNCHANGED <<now, gameConfig, obstacles, calls, loads, rebuilds, sweep>>
        /\ UNCHANGED <<player, projectiles, frame, sinceShot, shotGap, steer, levelScene>>

\* Enemy.onPreUpdate, second half: behavior.updateShooting(enemy, engine, delta)
UpdateShooting(e, hits, random) ==
    LET enemy == enemies[e]
        this == behaviors[enemy.behavior]
        looks == this.currentCooldown <= 0 /\ player.present
        shoots == looks /\ HasLineOfSight(hits)
    IN  /\ e # 0
        /\ updating = e
        /\ updating' = 0
        /\ upd' = <<UpdateRecord(e, "updateShooting", IF looks THEN <<hits>> ELSE <<>>,
                                 FALSE, <<>>)>>
        /\ IF shoots
           THEN /\ projectiles' = Append(projectiles, NewProjectile(enemy.pos, player.pos))
                /\ behaviors' = [behaviors EXCEPT ![enemy.behavior].currentCooldown =
                                    ResetCooldown(random)]
                /\ shotGap' = [shotGap EXCEPT ![e] = sinceShot[e]]
                /\ sinceShot' = [sinceShot EXCEPT ![e] = 0]
           ELSE UNCHANGED <<projectiles, behaviors, shotGap, sinceShot>>
        /\ UNCHANGED <<now, gameConfig, obstacles, pathVars, hist, calls, loads, rebuilds, sweep>>
        /\ UNCHANGED <<player, enemies, frame, pending, steer, levelScene>>

NextTactical ==
    \/ \E delta \in FrameDeltas : StartFrame(delta)
    \/ \E e \in DOMAIN enemies : EngineMove(e)
    \/ PlayerDies
    \/ \E e \in DOMAIN enemies : UpdateMovement(e)
    \/ \E e \in DOMAIN enemies, hits \in RayHits, random \in Randoms :
           UpdateShooting(e, hits, random)

SpecTactical == InitTactical /\ [][NextTactical]_vars

-----------------------------------------------------------------------------
(* SpecCover: levels with up to two cover obstacles, one level after another.
   The next level is a new scene with new enemies made by the factory; the
   registry of enemy types and the static fields of Pathfinding live on *)

\* the boundary wall along the right edge
RightWall == Obstacle(251, 128, 10, 256)
\* two obstacles of the standard size
CoverA == Obstacle(64, 64, ObstacleSize, ObstacleSize)
CoverB == Obstacle(160, 176, ObstacleSize, ObstacleSize)

CoverScenes == { {RightWall, CoverA, CoverB}, {RightWall, CoverA}, {RightWall}, {} }
\* the player's spawn point, on one axis with each cover obstacle
CoverPlayerPositions == { Vec(64, 176) }
\* where the level puts its e-th tactical shooter: by the right wall, more
\* than 200 px from CoverA, or next to CoverA
CoverSpawn(e) == IF e % 2 = 1 THEN Vec(240, 176) ELSE Vec(120, 24)
CoverRayHits == { {"Player"}, {"Obstacle", "Player"} }
CoverRandoms == { 0 }

InitCover ==
    /\ now = 0
    /\ gameConfig = [width |-> CoverWorldWidth, height |-> CoverWorldHeight]
    /\ obstacles \in CoverScenes
    /\ grid = NullGrid
    /\ gridWidth = 0
    /\ gridHeight = 0
    /\ lastObstacleUpdate = 0
    /\ pathCache = <<>>
    /\ hist = <<>>
    /\ calls = 0
    /\ loads = 0
    /\ rebuilds = 0
    /\ sweep = 0
    /\ player \in [present : {TRUE}, pos : CoverPlayerPositions]
    /\ \E level \in 1..MaxLevel :
         /\ enemies = [e \in 1..EnemyCount(level) |->
                          Create("TACTICAL_SHOOTER", CoverSpawn(e))]
         /\ sinceShot = [e \in 1..EnemyCount(level) |-> -1]
         /\ shotGap = [e \in 1..EnemyCount(level) |-> -1]
    /\ behaviors = [b \in { EnemyTypes[t].behavior : t \in DOMAIN EnemyTypes } |->
                       NewHideAndShootBehavior]
    /\ projectiles = <<>>
    /\ frame = [n |-> 0, delta |-> 0]
    /\ pending = {}
    /\ updating = 0
    /\ upd = <<>>
    /\ steer = <<>>
    /\ levelScene = NoLevelScene

\* Level.onActivate for the next level: the scene is cleared, obstacles,
\* player and enemies are added anew.  The level number went up by one when
\* the level was completed and back to 1 when the player died
NextLevel(scene, level) ==
    /\ pending = {}
    /\ updating = 0
    /\ frame.n > 0
    /\ loads < MaxLevelLoads
    /\ level <= MaxLevel
    /\ \/ player.present /\ level = Len(enemies) + 1
       \/ ~player.present /\ level = 1
    /\ loads' = loads + 1
    /\ obstacles' = scene
    /\ player' = [player EXCEPT !.present = TRUE]
    /\ enemies' = [e \in 1..EnemyCount(level) |->
                      Create("TACTICAL_SHOOTER", CoverSpawn(e))]
    /\ sinceShot' = [e \in 1..EnemyCount(level) |-> -1]
    /\ shotGap' = [e \in 1..EnemyCount(level) |-> -1]
    /\ projectiles' = <<>>
    /\ upd' = <<>>
    /\ UNCHANGED <<now, gameConfig, pathVars, hist, calls, rebuilds, sweep>>
    /\ UNCHANGED <<behaviors, frame, pending, updating, steer, levelScene>>

NextCover ==
    \/ \E delta \in FrameDeltas : StartFrame(delta)
    \/ \E e \in DOMAIN enemies : EngineMove(e)
    \/ PlayerDies
    \/ \E e \in DOMAIN enemies : UpdateMovement(e)
    \/ \E e \in DOMAIN enemies, hits \in CoverRayHits, random \in CoverRandoms :
           UpdateShooting(e, hits, random)
    \/ \E scene \in CoverScenes, level \in 1..MaxLevel : NextLevel(scene, level)

SpecCover == InitCover /\ [][NextCover]_vars

-----------------------------------------------------------------------------
(* ObstacleAvoidance in exact arithmetic, for any configuration.  Positions
   and desired velocities are integer vectors whose sizes are integers, so
   every unit vector is rational.  A number a + b*sqrt(rad) is kept as the
   pair [a, b] next to its radicand rad.  Vectors the code builds from the
   desired direction are kept by their coordinates along
   desiredVelocity.normalize() and along the perpendicular (-y, x) of it, over
   the common denominator den.  avoidanceForce is the fraction num/den;
   maxAvoidanceAngle, between 0 and pi, is given by its cosine cos/den and
   its sine sin*sqrt(root)/den *)

RECURSIVE Gcd(_, _)
Gcd(a, b) == IF b = 0 THEN Abs(a) ELSE Gcd(Abs(b), Abs(a) % Abs(b))

\* Vector.size, for the vectors whose size is an integer
Size(v) == CHOOSE k \in 0..(Abs(v.x) + Abs(v.y)) : k * k = v.x * v.x + v.y * v.y

\* Vector.normalize: the unit vector (x, y) / size in lowest terms; the
\* library normalizes the zero vector to (0, 1)
Unit(v) ==
    IF v.x = 0 /\ v.y = 0
    THEN [x |-> 0, y |-> 1, size |-> 1]
    ELSE [x |-> v.x \div Gcd(v.x, v.y), y |-> v.y \div Gcd(v.x, v.y),
          size |-> Size(v) \div Gcd(v.x, v.y)]

Surd(a, b) == [a |-> a, b |-> b]
SurdAdd(s, t) == Surd(s.a + t.a, s.b + t.b)
SurdScale(k, s) == Surd(k * s.a, k * s.b)
SurdMul(s, t, rad) == Surd(s.a * t.a + s.b * t.b * rad, s.a * t.b + s.b * t.a)
\* the sign of a + b*sqrt(rad)
SurdSign(s, rad) ==
    IF s.b = 0 \/ rad = 0 THEN Sign(s.a)
    ELSE IF s.a = 0 THEN Sign(s.b)
    ELSE IF s.a > 0 /\ s.b > 0 THEN 1
    ELSE IF s.a < 0 /\ s.b < 0 THEN -1
    ELSE IF s.a > 0 THEN Sign(s.a * s.a - s.b * s.b * rad)
    ELSE Sign(s.b * s.b * rad - s.a * s.a)

FrameVector(along, across, den, rad) ==
    [along |-> along, across |-> across, den |-> den, rad |-> rad]
\* Vector.Zero
ZeroFrame == FrameVector(Surd(0, 0), Surd(0, 0), 1, 1)
\* vector.size === 0
IsZeroFrame(v) == SurdSign(v.along, v.rad) = 0 /\ SurdSign(v.across, v.rad) = 0
\* the vector up to a positive factor, in lowest terms
Reduced(v) ==
    LET g == Gcd(Gcd(v.along.a, v.along.b), Gcd(v.across.a, v.across.b))
    IN  IF g = 0
        THEN FrameVector(v.along, v.across, 1, v.rad)
        ELSE FrameVector(Surd(v.along.a \div g, v.along.b \div g),
                         Surd(v.across.a \div g, v.across.b \div g), 1, v.rad)

Angle(cos, sin, root, den) == [cos |-> cos, sin |-> sin, root |-> root, den |-> den]
Fraction(num, den) == [num |-> num, den |-> den]

\* DEFAULT_CONFIG
DefaultConfig ==
    [lookAheadDistance |-> 60, avoidanceRadius |-> 50,
     avoidanceForce |-> Fraction(2, 5), maxAvoidanceAngle |-> Angle(1, 1, 3, 2)]
\* { ...DEFAULT_CONFIG, ...config } for the config HideAndShootBehavior.moveTo gives
HideAndShootAvoidance ==
    [DefaultConfig EXCEPT !.avoidanceRadius = AvoidanceRadius,
                          !.avoidanceForce = Fraction(1, 2),
                          !.lookAheadDistance = 50]
\* the config the patrolling behaviour gives
PatrolAvoidance ==
    [lookAheadDistance |-> 50, avoidanceRadius |-> 45,
     avoidanceForce |-> Fraction(3, 5), maxAvoidanceAngle |-> Angle(0, 1, 1, 1)]

\* (mutant) detectObstaclesAhead without the 60% rule
DetectAheadOnlyAhead(pos, desired, obs, config) ==
    IF desired.x = 0 /\ desired.y = 0
    THEN {}
    ELSE { o \in obs :
             /\ Dist2(pos, o) <= config.avoidanceRadius * config.avoidanceRadius
             /\ Dot(desired.x, desired.y, o.x - pos.x, o.y - pos.y) > 0 }

\* detectObstaclesAhead; the look-ahead point takes no part in the decision
DetectAhead(pos, desired, obs, config) ==
    IF desired.x = 0 /\ desired.y = 0
    THEN {}
    ELSE { o \in obs :
             /\ Dist2(pos, o) <= config.avoidanceRadius * config.avoidanceRadius
             /\ \/ Dot(desired.x, desired.y, o.x - pos.x, o.y - pos.y) > 0
                \/ 25 * Dist2(pos, o)
                       <= 9 * config.avoidanceRadius * config.avoidanceRadius }

\* calculateAvoidanceVector, the body of the loop: the repulsion of one
\* obstacle, weighted by (avoidanceRadius - distance) / avoidanceRadius, is
\* added to the sum so far; the sum, times avoidanceRadius, is (x, y) / den
AddRepulsion(sum, toObstacle, distance, radius) ==
    IF distance = 0
    THEN sum
    ELSE LET x == sum.x * distance - toObstacle.x * (radius - distance) * sum.den
             y == sum.y * distance - toObstacle.y * (radius - distance) * sum.den
             den == sum.den * distance
         IN  CHOOSE v \in { [x |-> x \div g, y |-> y \div g, den |-> den \div g] :
                               g \in { Gcd(Gcd(x, y), den) } } : TRUE

\* calculateAvoidanceVector, the loop over the flagged obstacles
RECURSIVE SumRepulsion(_, _, _)
SumRepulsion(pos, flagged, radius) ==
    IF flagged = {}
    THEN [x |-> 0, y |-> 0, den |-> 1]
    ELSE LET obstacle == CHOOSE o \in flagged : TRUE
             toObstacle == Vec(obstacle.x - pos.x, obstacle.y - pos.y)
         IN  CHOOSE v \in { AddRepulsion(rest, toObstacle, distance, radius) :
                               rest \in { SumRepulsion(pos, flagged \ {obstacle}, radius) },
                               distance \in { Size(toObstacle) } } : TRUE

\* calculateAvoidanceVector.  (q, r) are the coordinates of the summed
\* repulsion, up to a positive factor, and n the square of their size; the
\* dot product of the scaled avoidance vector with the movement direction is
\* avoidanceForce * q / sqrt(n), and acos of it exceeds maxAvoidanceAngle
\* when it is below the cosine of that angle
CalculateAvoidanceVector(pos, flagged, desired, config) ==
    LET sum == SumRepulsion(pos, flagged, config.avoidanceRadius)
        movementDirection == Unit(desired)
        f == config.avoidanceForce
        m == config.maxAvoidanceAngle
        q0 == sum.x * movementDirection.x + sum.y * movementDirection.y
        r0 == sum.y * movementDirection.x - sum.x * movementDirection.y
        q == q0 \div Gcd(q0, r0)
        r == r0 \div Gcd(q0, r0)
        n == q * q + r * r
        exceeds == /\ desired.x # 0 \/ desired.y # 0
                   /\ SurdSign(Surd(f.num * q * m.den, -(m.cos * f.den)), n) < 0
        sign == IF f.num = 0 \/ r >= 0 THEN 1 ELSE -1
    IN  IF flagged = {} \/ (sum.x = 0 /\ sum.y = 0)
        THEN ZeroFrame
        ELSE IF exceeds
        THEN FrameVector(Surd(f.num * m.cos, 0), Surd(0, f.num * sign * m.sin),
                         f.den * m.den, m.root)
        ELSE FrameVector(Surd(0, f.num * q), Surd(0, f.num * r), f.den * n, n)

\* desiredVelocity.normalize().scale(1 - avoidanceForce).add(avoidanceVector)
BlendedDirection(avoidanceVector, config) ==
    LET f == config.avoidanceForce
    IN  FrameVector(SurdAdd(SurdScale(f.den, avoidanceVector.along),
                            Surd((f.den - f.num) * avoidanceVector.den, 0)),
                    SurdScale(f.den, avoidanceVector.across),
                    f.den * avoidanceVector.den, avoidanceVector.rad)

\* a velocity: the vector of size speed in the direction dir, which is given
\* by its coordinates along the unit vector basis and its perpendicular
Velocity(basis, dir, speed) == [basis |-> basis, dir |-> dir, speed |-> speed]
\* the desired velocity itself
Unsteered(desired) ==
    Velocity(Unit(desired), FrameVector(Surd(1, 0), Surd(0, 0), 1, 1),
             Fraction(Size(desired), 1))

\* Vector.Zero as a velocity
ZeroVelocity == Velocity(Unit(Vec(0, 0)), ZeroFrame, Fraction(0, 1))

\* the fallback at the full desired speed
FallbackFullSpeed(desired, config) ==
    IF desired.x # 0 \/ desired.y # 0
    THEN Velocity(Unit(desired), FrameVector(Surd(0, 0), Surd(1, 0), 1, 1),
                  Fraction(Size(desired), 1))
    ELSE ZeroVelocity

\* no fallback: the zero blend is returned
FallbackNone(desired, config) == ZeroVelocity

\* applyObstacleAvoidance, "Fallback": the perpendicular (-y, x) of the
\* desired velocity, normalized, scaled by desiredMagnitude * avoidanceForce
Fallback(desired, config) ==
    IF desired.x # 0 \/ desired.y # 0
    THEN Velocity(Unit(desired), FrameVector(Surd(0, 0), Surd(1, 0), 1, 1),
                  Fraction(Size(desired) * config.avoidanceForce.num,
                           config.avoidanceForce.den))
    ELSE ZeroVelocity

\* applyObstacleAvoidance after the detection: avoidance vector and blend
Steered(pos, flagged, desired, config) ==
    LET avoidanceVector == CalculateAvoidanceVector(pos, flagged, desired, config)
        blendedDirection == BlendedDirection(avoidanceVector, config)
    IN  IF ~IsZeroFrame(blendedDirection)
        THEN Velocity(Unit(desired), Reduced(blendedDirection),
                      Fraction(Size(desired), 1))
        ELSE Fallback(desired, config)

\* applyObstacleAvoidance without "If no obstacles, return desired velocity"
ApplyAvoidanceAlwaysBlends(pos, desired, obs, config) ==
    Steered(pos, DetectAhead(pos, desired, obs, config), desired, config)

\* applyObstacleAvoidance, config being { ...DEFAULT_CONFIG, ...config }
ApplyAvoidance(pos, desired, obs, config) ==
    LET flagged == DetectAhead(pos, desired, obs, config)
    IN  IF flagged = {} THEN Unsteered(desired) ELSE Steered(pos, flagged, desired, config)

-----------------------------------------------------------------------------
(* SpecAvoid: direct calls of applyObstacleAvoidance for one agent, over
   obstacle layouts, desired velocities and configurations; the agent also
   asks Pathfinding for paths, so that grid and cache are there *)

\* obstacles around the point (48, 48): ahead, beside, diagonally ahead,
\* behind, on the rim of a radius of 35 or 50, and at the point itself
Ahead == Obstacle(68, 48, 16, 16)
Beside == Obstacle(48, 68, 16, 16)
OtherSide == Obstacle(48, 28, 16, 16)
DiagonalAhead == Obstacle(60, 64, 16, 16)
Behind == Obstacle(18, 48, 16, 16)
OnRim35 == Obstacle(69, 76, 16, 16)
OnRim50 == Obstacle(88, 78, 16, 16)
AtAgent == Obstacle(48, 48, 16, 16)

AvoidLayouts ==
    { {}, {Ahead}, {Beside}, {Ahead, Beside}, {DiagonalAhead}, {Behind},
      {Beside, OtherSide}, {OnRim35}, {OnRim50}, {AtAgent}, {Ahead, DiagonalAhead, Behind} }

AvoidPositions == { Vec(48, 48), Vec(2, 48) }
AvoidGoals == { Vec(88, 88) }
AvoidVelocities == { Vec(0, 0), Vec(100, 0), Vec(-100, 0), Vec(60, 80) }
AvoidForces == { Fraction(0, 1), Fraction(1, 2), Fraction(3, 5), Fraction(1, 1) }
\* 0, pi/3, pi/2, acos(-4/5), pi
AvoidAngles ==
    { Angle(1, 0, 1, 1), Angle(1, 1, 3, 2), Angle(0, 1, 1, 1), Angle(-4, 3, 1, 5),
      Angle(-1, 0, 1, 1) }
AvoidConfigs ==
    { DefaultConfig, HideAndShootAvoidance, PatrolAvoidance }
    \cup { [DefaultConfig EXCEPT !.avoidanceForce = f, !.maxAvoidanceAngle = m] :
             f \in AvoidForces, m \in AvoidAngles }

InitAvoid ==
    /\ now = 0
    /\ gameConfig = [width |-> SearchWorldWidth, height |-> SearchWorldHeight]
    /\ obstacles \in AvoidLayouts
    /\ grid = NullGrid
    /\ gridWidth = 0
    /\ gridHeight = 0
    /\ lastObstacleUpdate = 0
    /\ pathCache = <<>>
    /\ hist = <<>>
    /\ calls = 0
    /\ loads = 0
    /\ rebuilds = 0
    /\ sweep = 0
    /\ player = [present |-> FALSE, pos |-> Vec(0, 0)]
    /\ \E pos \in AvoidPositions : enemies = <<Create("TACTICAL_SHOOTER", pos)>>
    /\ behaviors = [b \in { EnemyTypes[t].behavior : t \in DOMAIN EnemyTypes } |->
                       NewHideAndShootBehavior]
    /\ projectiles = <<>>
    /\ frame = [n |-> 0, delta |-> 0]
    /\ pending = {}
    /\ updating = 0
    /\ upd = <<>>
    /\ steer = <<>>
    /\ levelScene = NoLevelScene
    /\ sinceShot = <<-1>>
    /\ shotGap = <<-1>>

\* what a call of applyObstacleAvoidance is remembered by
AvoidanceRecord(e, desired, config, result) ==
    [op |-> "applyObstacleAvoidance", enemy |-> e, pos |-> enemies[e].pos,
     desired |-> desired, config |-> config, obstacles |-> obstacles,
     flagged |-> DetectAhead(enemies[e].pos, desired, obstacles, config),
     result |-> result]

\* a call that writes its result to the agent
CallApplyObstacleAvoidanceWritesVel(e, desired, config) ==
    LET result == ApplyAvoidance(enemies[e].pos, desired, obstacles, config)
    IN  /\ steer' = <<AvoidanceRecord(e, desired, config, result)>>
        /\ UNCHANGED levelScene
        /\ enemies' = [enemies EXCEPT ![e].vel = result]
        /\ UNCHANGED <<now, gameConfig, obstacles, pathVars, hist, calls, loads,
                       rebuilds, sweep>>
        /\ UNCHANGED <<player, behaviors, projectiles, frame, pending,
                       updating, upd, sinceShot, shotGap>>

\* ObstacleAvoidance.applyObstacleAvoidance(enemy, desiredVelocity, engine, config)
CallApplyObstacleAvoidance(e, desired, config) ==
    LET result == ApplyAvoidance(enemies[e].pos, desired, obstacles, config)
    IN  /\ steer' = <<AvoidanceRecord(e, desired, config, result)>>
        /\ UNCHANGED levelScene
        /\ UNCHANGED <<now, gameConfig, obstacles, pathVars, hist, calls, loads,
                       rebuilds, sweep>>
        /\ UNCHANGED <<player, enemies, behaviors, projectiles, frame, pending,
                       updating, upd, sinceShot, shotGap>>

\* Pathfinding.findPath(enemy.pos, goal, engine)
AvoidFindPath(e, goal) ==
    /\ calls < MaxAvoidPaths
    /\ DoFindPath(enemies[e].pos, goal)
    /\ calls' = calls + 1
    /\ UNCHANGED <<now, gameConfig, obstacles, loads, rebuilds, sweep>>
    /\ UNCHANGED tacVars

NextAvoid ==
    \/ \E e \in DOMAIN enemies, desired \in AvoidVelocities, config \in AvoidConfigs :
           CallApplyObstacleAvoidance(e, desired, config)
    \/ \E e \in DOMAIN enemies, goal \in AvoidGoals : AvoidFindPath(e, goal)

SpecAvoid == InitAvoid /\ [][NextAvoid]_vars

-----------------------------------------------------------------------------
(* SpecDirection: direct calls of Pathfinding.getDirectionToGoal for one
   agent, from points at and off the cell centres, to goals that may be the
   agent's own position, with any lookAhead *)

\* direction.normalize(): the unit vector is kept as the integer vector of
\* its direction in lowest terms; Vec(0, 0) is Vector.Zero
Heading(pos, waypoint) ==
    Vec((waypoint.x - pos.x) \div Gcd(waypoint.x - pos.x, waypoint.y - pos.y),
        (waypoint.y - pos.y) \div Gcd(waypoint.x - pos.x, waypoint.y - pos.y))

\* getDirectionToGoal, given the path findPath returned
GetDirectionToGoal(pos, path, lookAhead) ==
    IF DirectionWaypoint(pos, path, lookAhead) = <<>>
    THEN Vec(0, 0)
    ELSE Heading(pos, DirectionWaypoint(pos, path, lookAhead)[1])

DirectionLayouts == { {}, {CenterBlock}, {Bar}, {FullSearch} }
\* a cell centre, a point off the centre, a point on a cell's edge, a point
\* in a cell CenterBlock closes
DirectionPositions == { Vec(8, 8), Vec(10, 12), Vec(16, 8), Vec(40, 40) }
DirectionGoals == DirectionPositions \cup { Vec(88, 88) }
LookAheads == 0..MaxLookAhead

InitDirection ==
    /\ now = 0
    /\ gameConfig = [width |-> SearchWorldWidth, height |-> SearchWorldHeight]
    /\ obstacles \in DirectionLayouts
    /\ grid = NullGrid
    /\ gridWidth = 0
    /\ gridHeight = 0
    /\ lastObstacleUpdate = 0
    /\ pathCache = <<>>
    /\ hist = <<>>
    /\ calls = 0
    /\ loads = 0
    /\ rebuilds = 0
    /\ sweep = 0
    /\ player = [present |-> FALSE, pos |-> Vec(0, 0)]
    /\ \E pos \in DirectionPositions : enemies = <<Create("TACTICAL_SHOOTER", pos)>>
    /\ behaviors = [b \in { EnemyTypes[t].behavior : t \in DOMAIN EnemyTypes } |->
                       NewHideAndShootBehavior]
    /\ projectiles = <<>>
    /\ frame = [n |-> 0, delta |-> 0]
    /\ pending = {}
    /\ updating = 0
    /\ upd = <<>>
    /\ steer = <<>>
    /\ levelScene = NoLevelScene
    /\ sinceShot = <<-1>>
    /\ shotGap = <<-1>>

\* what a call of getDirectionToGoal is remembered by
DirectionRecord(e, goal, lookAhead, path) ==
    [op |-> "getDirectionToGoal", enemy |-> e, pos |-> enemies[e].pos, goal |-> goal,
     lookAhead |-> lookAhead, path |-> path,
     direction |-> GetDirectionToGoal(enemies[e].pos, path, lookAhead)]

\* Pathfinding.getDirectionToGoal(enemy, goal, engine, lookAhead)
CallGetDirectionToGoal(e, goal, lookAhead) ==
    LET r == FindPath(Nav(grid, gridWidth, gridHeight), lastObstacleUpdate, pathCache,
                      obstacles, gameConfig, now, enemies[e].pos, goal)
    IN  /\ calls < MaxDirectionCalls
        /\ DoFindPath(enemies[e].pos, goal)
        /\ calls' = calls + 1
        /\ UNCHANGED levelScene
        /\ steer' = <<DirectionRecord(e, goal, lookAhead, r.path)>>
        /\ UNCHANGED <<now, gameConfig, obstacles, loads, rebuilds, sweep>>
        /\ UNCHANGED <<player, enemies, behaviors, projectiles, frame, pending,
                       updating, upd, sinceShot, shotGap>>

NextDirection ==
    \E e \in DOMAIN enemies, goal \in DirectionGoals, lookAhead \in LookAheads :
        CallGetDirectionToGoal(e, goal, lookAhead)

SpecDirection == InitDirection /\ [][NextDirection]_vars

-----------------------------------------------------------------------------
(* SpecMove: direct calls of HideAndShootBehavior.moveTo for one agent, to
   targets inside, on and outside the deadzone and on either side of the
   path planner's distance, with and without obstacles in the way *)

\* the vector that desiredVelocity is along: to the waypoint that
\* getDirectionToGoal chose, or straight to the target
DesiredHeading(pos, target, path) ==
    IF /\ Dist2(pos, target) > PathfindingDistance * PathfindingDistance
       /\ DirectionWaypoint(pos, path, 1) # <<>>
    THEN Vec(DirectionWaypoint(pos, path, 1)[1].x - pos.x,
             DirectionWaypoint(pos, path, 1)[1].y - pos.y)
    ELSE Vec(target.x - pos.x, target.y - pos.y)

\* the size of applyObstacleAvoidance(enemy, desiredVelocity, engine, {...})
\* for the desired velocity of size moveSpeed along heading
SteeredSpeed(pos, heading, obs) ==
    CHOOSE f \in { Fraction(MoveSpeed * v.speed.num, v.speed.den * Size(heading)) :
                      v \in { ApplyAvoidance(pos, heading, obs, HideAndShootAvoidance) } } :
        TRUE

\* (mutant) moveTo without the "Fallback" to the direct vector
MoveToSpeedNoFallback(pos, target, path, obs) ==
    IF Dist2(pos, target) < Deadzone * Deadzone
    THEN Fraction(0, 1)
    ELSE IF /\ Dist2(pos, target) > PathfindingDistance * PathfindingDistance
            /\ DirectionWaypoint(pos, path, 1) = <<>>
    THEN Fraction(0, 1)
    ELSE SteeredSpeed(pos, DesiredHeading(pos, target, path), obs)

\* moveTo: the size of the velocity written to the enemy.  The desired
\* velocity has size moveSpeed, and applyObstacleAvoidance returns a vector
\* whose size is a fraction of the size of the one it is given
MoveToSpeed(pos, target, path, obs) ==
    IF Dist2(pos, target) < Deadzone * Deadzone
    THEN Fraction(0, 1)
    ELSE SteeredSpeed(pos, DesiredHeading(pos, target, path), obs)

\* an obstacle 32 px to the right of the agent at (8, 40); with its padding
\* it closes columns 1-3 of rows 1-3
InTheWay == Obstacle(40, 40, ObstacleSize, ObstacleSize)
\* a block over the whole world
FullMove == Obstacle(64, 40, 128, 80)
MoveLayouts == { {}, {InTheWay}, {FullMove} }
\* the centres of a cell of row 2 and of a cell of row 0
MovePositions == { Vec(8, 40), Vec(8, 8) }
\* the targets, from the agent: at 0, 4, 5, 6, 100 and 112 px
MoveOffsets == { Vec(0, 0), Vec(0, 4), Vec(3, 4), Vec(0, 6), Vec(100, 0), Vec(112, 0) }

InitMove ==
    /\ now = 0
    /\ gameConfig = [width |-> MoveWorldWidth, height |-> MoveWorldHeight]
    /\ obstacles \in MoveLayouts
    /\ grid = NullGrid
    /\ gridWidth = 0
    /\ gridHeight = 0
    /\ lastObstacleUpdate = 0
    /\ pathCache = <<>>
    /\ hist = <<>>
    /\ calls = 0
    /\ loads = 0
    /\ rebuilds = 0
    /\ sweep = 0
    /\ player = [present |-> FALSE, pos |-> Vec(0, 0)]
    /\ \E pos \in MovePositions : enemies = <<Create("TACTICAL_SHOOTER", pos)>>
    /\ behaviors = [b \in { EnemyTypes[t].behavior : t \in DOMAIN EnemyTypes } |->
                       NewHideAndShootBehavior]
    /\ projectiles = <<>>
    /\ frame = [n |-> 0, delta |-> 0]
    /\ pending = {}
    /\ updating = 0
    /\ upd = <<>>
    /\ steer = <<>>
    /\ levelScene = NoLevelScene
    /\ sinceShot = <<-1>>
    /\ shotGap = <<-1>>

\* this.moveTo(enemy, target, engine)
CallMoveTo(e, target) ==
    LET enemy == enemies[e]
        plans == UsesPathfinding(enemy.pos, target)
        r == FindPath(Nav(grid, gridWidth, gridHeight), lastObstacleUpdate, pathCache,
                      obstacles, gameConfig, now, enemy.pos, target)
        path == IF plans THEN r.path ELSE <<>>
    IN  /\ calls < MaxMoveCalls
        /\ calls' = calls + 1
        /\ enemies' = [enemies EXCEPT ![e] =
                          WriteVel(enemy, MoveTo(enemy.pos, target, path, obstacles))]
        /\ UNCHANGED levelScene
        /\ steer' = <<[op |-> "moveTo", enemy |-> e, pos |-> enemy.pos,
                       target |-> target, plans |-> plans, path |-> path,
                       speed |-> MoveToSpeed(enemy.pos, target, path, obstacles)]>>
        /\ IF plans
           THEN DoFindPath(enemy.pos, target)
           ELSE UNCHANGED <<pathVars, hist>>
        /\ UNCHANGED <<now, gameConfig, obstacles, loads, rebuilds, sweep>>
        /\ UNCHANGED <<player, behaviors, projectiles, frame, pending,
                       updating, upd, sinceShot, shotGap>>

NextMove ==
    \E e \in DOMAIN enemies, offset \in MoveOffsets :
        CallMoveTo(e, Vec(enemies[e].pos.x + offset.x, enemies[e].pos.y + offset.y))

SpecMove == InitMove /\ [][NextMove]_vars

-----------------------------------------------------------------------------
(* SpecEdge: findPath with starts and goals outside the world, next to it
   and further away than findNearestWalkable looks *)

EdgeLayouts == { {}, {BigLeft}, {Full} }

EdgePoints ==
    { Vec(-8, 8), Vec(70, 30), Vec(-20, -20), Vec(200, 200), Vec(24, 40) }

InitEdge ==
    /\ now = 0
    /\ gameConfig = [width |-> EdgeWorldWidth, height |-> EdgeWorldHeight]
    /\ obstacles \in EdgeLayouts
    /\ grid = NullGrid
    /\ gridWidth = 0
    /\ gridHeight = 0
    /\ lastObstacleUpdate = 0
    /\ pathCache = <<>>
    /\ hist = <<>>
    /\ calls = 0
    /\ loads = 0
    /\ rebuilds = 0
    /\ sweep = 0
    /\ NoTacticalScene

\* Pathfinding.findPath(start, goal, engine)
EdgeFindPath(start, goal) ==
    /\ calls < MaxEdgeCalls
    /\ DoFindPath(start, goal)
    /\ calls' = calls + 1
    /\ UNCHANGED <<now, gameConfig, obstacles, loads, rebuilds, sweep>>
    /\ UNCHANGED tacVars

NextEdge == \E start \in EdgePoints, goal \in EdgePoints : EdgeFindPath(start, goal)

SpecEdge == InitEdge /\ [][NextEdge]_vars

-----------------------------------------------------------------------------
(* SpecLevel: the scenes.  The hub starts the level scene; in an activation
   of the level scene enemies and the player are killed in any order, a
   power-up card of the level-complete overlay is clicked, the game-over
   timer runs out; the engine changes to the scene last asked for *)

\* spawnEnemies: generateLevelConfig gives `level' enemies of each type
SpawnedEnemies(level) == EnemyCount(level) * Cardinality(DOMAIN EnemyTypes)

\* Level.onActivate
OnActivate(s) ==
    [s EXCEPT !.activeEnemies = SpawnedEnemies(s.currentLevel),
              !.isLevelComplete = FALSE, !.isGameOver = FALSE,
              !.killed = FALSE, !.cards = FALSE, !.timer = FALSE,
              !.health = s.playerHealth]

\* Level.onDeactivate: the health of a surviving player is kept
OnDeactivate(s) ==
    IF s.killed THEN s ELSE [s EXCEPT !.playerHealth = s.health]

\* Level.levelComplete: the overlay with the power-up cards is shown
LevelComplete(s) ==
    [s EXCEPT !.isLevelComplete = TRUE, !.cards = TRUE,
              !.playerHealth = IF s.killed THEN s.playerHealth ELSE s.health]

\* Level.onEnemyKilled
OnEnemyKilled(s) ==
    LET t == [s EXCEPT !.activeEnemies = s.activeEnemies - 1]
    IN  IF t.activeEnemies <= 0 /\ ~t.isLevelComplete /\ ~t.isGameOver
        THEN LevelComplete(t)
        ELSE t

\* Level.onPlayerDeath, with LevelManager.resetLevel and the timer it starts
OnPlayerDeath(s) ==
    IF s.isGameOver
    THEN s
    ELSE [s EXCEPT !.isGameOver = TRUE, !.currentLevel = 1,
                   !.playerHealth = MaxHits, !.timer = TRUE]

\* Player.takeDamage: the hit that takes the last health kills the player,
\* and the 'kill' handler runs
TakeDamage(s) ==
    LET t == [s EXCEPT !.health = s.health - 1]
    IN  IF t.health <= 0
        THEN [OnPlayerDeath(t) EXCEPT !.killed = TRUE]
        ELSE t

\* Level.selectPowerup, with LevelManager.incrementLevel
SelectPowerup(s) == [s EXCEPT !.currentLevel = s.currentLevel + 1, !.goTo = "level"]

InitLevel ==
    /\ now = 0
    /\ gameConfig = [width |-> PathWorldWidth, height |-> PathWorldHeight]
    /\ obstacles = {}
    /\ grid = NullGrid
    /\ gridWidth = 0
    /\ gridHeight = 0
    /\ lastObstacleUpdate = 0
    /\ pathCache = <<>>
    /\ hist = <<>>
    /\ calls = 0
    /\ loads = 0
    /\ rebuilds = 0
    /\ sweep = 0
    /\ player = [present |-> FALSE, pos |-> Vec(0, 0)]
    /\ enemies = <<>>
    /\ behaviors = [b \in { EnemyTypes[t].behavior : t \in DOMAIN EnemyTypes } |->
                       NewHideAndShootBehavior]
    /\ projectiles = <<>>
    /\ frame = [n |-> 0, delta |-> 0]
    /\ pending = {}
    /\ updating = 0
    /\ upd = <<>>
    /\ steer = <<>>
    /\ sinceShot = <<>>
    /\ shotGap = <<>>
    /\ levelScene = [NoLevelScene EXCEPT !.name = "hub"]

LevelFrame == <<now, gameConfig, obstacles, pathVars, hist, calls, loads, rebuilds, sweep,
                player, enemies, behaviors, projectiles, frame, pending, updating,
                upd, sinceShot, shotGap, steer>>

\* the hub's start button: engine.goToScene('level')
StartGame ==
    /\ levelScene.name = "hub"
    /\ levelScene' = [levelScene EXCEPT !.goTo = "level"]
    /\ UNCHANGED LevelFrame

\* the engine changes to the scene asked for and activates it
ChangeScene ==
    /\ levelScene.goTo # ""
    /\ levelScene' =
          LET left == IF levelScene.name = "level"
                      THEN OnDeactivate(levelScene)
                      ELSE levelScene
          IN  IF levelScene.goTo = "level"
              THEN [OnActivate(left) EXCEPT !.name = "level", !.goTo = ""]
              ELSE [left EXCEPT !.name = levelScene.goTo, !.goTo = ""]
    /\ UNCHANGED LevelFrame

\* an enemy of the level is killed: its 'kill' handler runs
EnemyKilled ==
    /\ levelScene.name = "level"
    /\ levelScene.activeEnemies > 0
    /\ levelScene' = OnEnemyKilled(levelScene)
    /\ UNCHANGED LevelFrame

\* an enemy projectile hits the player
PlayerHit ==
    /\ levelScene.name = "level"
    /\ ~levelScene.killed
    /\ levelScene' = TakeDamage(levelScene)
    /\ UNCHANGED LevelFrame

\* a power-up card of the overlay gets a 'pointerup'
CardClicked ==
    /\ levelScene.name = "level"
    /\ levelScene.cards
    /\ levelScene.currentLevel < MaxStage
    /\ levelScene' = SelectPowerup(levelScene)
    /\ UNCHANGED LevelFrame

\* the timer started by onPlayerDeath runs out: engine.goToScene('hub')
GameOverTimer ==
    /\ levelScene.name = "level"
    /\ levelScene.timer
    /\ levelScene' = [levelScene EXCEPT !.timer = FALSE, !.goTo = "hub"]
    /\ UNCHANGED LevelFrame

NextScene ==
    \/ StartGame
    \/ ChangeScene
    \/ EnemyKilled
    \/ PlayerHit
    \/ CardClicked
    \/ GameOverTimer

SpecLevel == InitLevel /\ [][NextScene]_vars

-----------------------------------------------------------------------------
(* Properties of HideAndShootBehavior.  upd[1] is the most recent update call
   with the behaviour fields, the number of projectiles and the player as
   they were when it was made; nothing but an update call changes them *)

Updated == Len(upd) > 0
\* the fields of the behaviour object enemy e is driven by
CoverState(e) == behaviors[enemies[e].behavior]
CoverStateBefore(e) == upd[1].behaviors[enemies[e].behavior]
ProjectilesAdded == Len(projectiles) - upd[1].projectiles
\* the line-of-sight query was made in the call and hit no Obstacle
RayClear == upd[1].rayCast # <<>> /\ "Obstacle" \notin upd[1].rayCast[1]
ShootingGate == CoverStateBefore(upd[1].enemy).currentCooldown <= 0 /\ RayClear

\* C1: updateShooting adds a projectile only in a call where the cooldown is
\* <= 0 and the line-of-sight query of that call reports no Obstacle hit;
\* when either fails no projectile is added and the cooldown is not reset
C1_ShootingGate ==
    (Updated /\ upd[1].op = "updateShooting")
    => /\ ProjectilesAdded \in {0, 1}
       /\ ProjectilesAdded = 1 => ShootingGate
       /\ ~ShootingGate
              => /\ ProjectilesAdded = 0
                 /\ CoverState(upd[1].enemy).currentCooldown
                        = CoverStateBefore(upd[1].enemy).currentCooldown

\* a shot was fired along a ray that hit the player and no obstacle
C1_ShotFired ==
    /\ Updated
    /\ upd[1].op = "updateShooting"
    /\ ProjectilesAdded = 1
    /\ upd[1].rayCast = << {"Player"} >>
    /\ CoverState(upd[1].enemy).currentCooldown > 0

\* C2: for every tactical agent of a level, the tick time between two
\* consecutive shots of that agent is at least 0.8 x the shoot cooldown
C2_ShotsApart ==
    \A e \in DOMAIN shotGap :
        shotGap[e] >= 0 => 10 * shotGap[e] >= 8 * ShootCooldown

\* C3: an updateMovement or updateShooting call made for one tactical agent
\* leaves the selected cover obstacle and the shoot cooldown of every other
\* agent unchanged
C3_OwnCoverState ==
    Updated
    => \A e \in DOMAIN enemies \ {upd[1].enemy} :
           CoverState(e) = CoverStateBefore(e)

-----------------------------------------------------------------------------
(* Properties of Pathfinding.  hist[1] is the most recent findPath call and
   hist[2] the one before it; pathCache is the cache as the most recent call
   left it *)

Called == Len(hist) > 0
CalledTwice == Len(hist) = 2
SameQuery == hist[1].start = hist[2].start /\ hist[1].goal = hist[2].goal
\* the second call was issued within the cache timeout of the first
WithinTimeout == hist[1].at - hist[2].at < CacheTimeout
\* the cache entry the most recent call found under its key
EntryBefore == hist[1].before[1]
EntryAge == hist[1].at - EntryBefore.timestamp
\* the cache entry now stored under the key of the most recent call
EntryNow == pathCache[CacheIndex(pathCache, CacheKey(hist[1].start, hist[1].goal))]
HasEntryNow == CacheIndex(pathCache, CacheKey(hist[1].start, hist[1].goal)) # 0

\* C4: after any sequence of findPath calls the path cache holds at most
\* 50 entries
C4_CacheBounded == Len(pathCache) <= CacheLimit

\* C5: after a call whose search was exhausted, a second call with the same
\* start and goal within the cache timeout, with no grid rebuild in between,
\* returns the empty sequence from the cache and runs no search
C5_ExhaustedServedFromCache ==
    (/\ CalledTwice
     /\ hist[2].searched
     /\ hist[2].path = <<>>
     /\ SameQuery
     /\ WithinTimeout
     /\ ~hist[1].rebuilt
     /\ hist[1].forced = hist[2].forced)
    => (hist[1].fromCache /\ ~hist[1].searched /\ hist[1].path = <<>>)

\* C6 as stated: a stored path is returned without a search only when the
\* entry's age is strictly less than the cache timeout and the live start and
\* goal are within the distance threshold of the recorded ones
C6_ServedStrictlyYounger ==
    (Called /\ hist[1].fromCache)
    => /\ hist[1].before # <<>>
       /\ EntryAge < CacheTimeout
       /\ Dist2(hist[1].start, EntryBefore.start)
              <= CacheDistanceThreshold * CacheDistanceThreshold
       /\ Dist2(hist[1].goal, EntryBefore.goal)
              <= CacheDistanceThreshold * CacheDistanceThreshold

\* C6 amended: a stored path is returned without a search only when the
\* entry's age is at most the cache timeout and the live start and goal are
\* each less than the distance threshold away from the recorded ones, and
\* the path returned is the stored one; an entry older than the timeout is
\* never served
C6_ServedNotOlder ==
    (Called /\ hist[1].fromCache)
    => /\ hist[1].before # <<>>
       /\ ~hist[1].searched
       /\ hist[1].path = EntryBefore.path
       /\ EntryAge <= CacheTimeout
       /\ Dist2(hist[1].start, EntryBefore.start)
              < CacheDistanceThreshold * CacheDistanceThreshold
       /\ Dist2(hist[1].goal, EntryBefore.goal)
              < CacheDistanceThreshold * CacheDistanceThreshold

\* a path is served from an entry whose age is exactly the timeout
C6_ServedAtTimeout ==
    /\ Called
    /\ hist[1].fromCache
    /\ EntryAge = CacheTimeout

\* C7: two consecutive calls with identical start and goal, the second
\* within the cache timeout of the first, return identical waypoint
\* sequences, whatever happens to the obstacles and the grid in between
C7_RepeatReturnsSame ==
    (CalledTwice /\ SameQuery /\ WithinTimeout)
    => hist[1].path = hist[2].path

\* the entry found under the key is past the timeout or was recorded for a
\* start or goal beyond the distance threshold
EntryOutdated ==
    \/ EntryAge > CacheTimeout
    \/ Dist2(hist[1].start, EntryBefore.start)
           > CacheDistanceThreshold * CacheDistanceThreshold
    \/ Dist2(hist[1].goal, EntryBefore.goal)
           > CacheDistanceThreshold * CacheDistanceThreshold

\* C8: a call issued after the cache timeout has elapsed since the matching
\* entry was stored, or whose start or goal lies beyond the distance
\* threshold from the recorded one, runs a fresh search and replaces the
\* entry with the new result and a new timestamp
C8_OutdatedEntryReplaced ==
    (Called /\ hist[1].before # <<>> /\ EntryOutdated)
    => /\ hist[1].searched
       /\ HasEntryNow
       /\ EntryNow.timestamp = hist[1].at
       /\ EntryNow.path = hist[1].path

-----------------------------------------------------------------------------
(* Properties of the search.  The least cost of a chain of walkable cells is
   computed apart from the search, by relaxing every cell until nothing
   changes *)

GridCells(N) == (0..(N.gridWidth - 1)) \X (0..(N.gridHeight - 1))
WalkableCells(N) == { c \in GridCells(N) : IsWalkable(N, c[1], c[2]) }
Adjacent(c, d) == c # d /\ Abs(c[1] - d[1]) <= 1 /\ Abs(c[2] - d[2]) <= 1
IsDiagonal(c, d) == c[1] # d[1] /\ c[2] # d[2]
StepCost(c, d) == IF IsDiagonal(c, d) THEN Cost(0, 1) ELSE Cost(1, 0)

\* the least of a non-empty set of costs
LeastCost(S) == CHOOSE m \in S : \A o \in S : ~CostLess(o, m)

\* dist maps the cells reached so far to the least cost found for them
RelaxOnce(N, dist) ==
    LET reached == DOMAIN dist
        W == WalkableCells(N)
        next == { c \in W : c \in reached \/ \E d \in reached : Adjacent(c, d) }
    IN  [ c \in next |->
            LeastCost((IF c \in reached THEN {dist[c]} ELSE {})
                      \cup { CostAdd(dist[d], StepCost(d, c)) :
                               d \in { e \in reached : Adjacent(c, e) } }) ]

RECURSIVE RelaxAll(_, _)
RelaxAll(N, dist) ==
    LET d == RelaxOnce(N, dist)
    IN  IF d = dist THEN dist ELSE RelaxAll(N, d)

\* the least cost of a chain from cell a to cell b, both walkable and joined
ShortestCost(N, a, b) == RelaxAll(N, (a :> Cost(0, 0)))[b]

\* the cell a waypoint is the centre of
CellOf(p) == <<WorldToGrid(p).x, WorldToGrid(p).y>>
DiagonalSteps(path) ==
    Cardinality({ i \in 1..(Len(path) - 1) : IsDiagonal(CellOf(path[i]), CellOf(path[i + 1])) })
PathCost(path) == Cost(Len(path) - 1 - DiagonalSteps(path), DiagonalSteps(path))

ObstacleFree(N) == WalkableCells(N) = GridCells(N)
SearchedPath == Called /\ hist[1].searched /\ Len(hist[1].path) > 0
CellDx == Abs(hist[1].startCell[1] - hist[1].goalCell[1])
CellDy == Abs(hist[1].startCell[2] - hist[1].goalCell[2])

\* C9: a non-empty path returned by a search has the least total step cost
\* (1 per orthogonal step, sqrt(2) per diagonal step) of all 8-connected
\* chains of walkable cells from the start cell to the goal cell; on an
\* obstacle-free grid it has max(dx, dy) + 1 waypoints and min(dx, dy)
\* diagonal steps
C9_PathIsShortest ==
    SearchedPath
    => /\ PathCost(hist[1].path)
              = ShortestCost(hist[1].nav, hist[1].startCell, hist[1].goalCell)
       /\ ObstacleFree(hist[1].nav)
              => /\ Len(hist[1].path) = Max(CellDx, CellDy) + 1
                 /\ DiagonalSteps(hist[1].path) = Min(CellDx, CellDy)

\* a search around an obstacle returned a path with orthogonal and diagonal
\* steps that is longer than the obstacle-free one
C9_DetourFound ==
    /\ SearchedPath
    /\ ~ObstacleFree(hist[1].nav)
    /\ DiagonalSteps(hist[1].path) > 0
    /\ Len(hist[1].path) - 1 > DiagonalSteps(hist[1].path)
    /\ Len(hist[1].path) > Max(CellDx, CellDy) + 1

\* C10: a non-empty path produced by a search runs from start to goal: the
\* first waypoint is the centre of the (possibly substituted) start cell, the
\* last one the centre of the (possibly substituted) goal cell, every
\* waypoint is the centre of a cell walkable in the grid of the search, and
\* consecutive waypoints are centres of 8-adjacent cells
C10_PathWellFormed ==
    SearchedPath
    => LET c == hist[1]
           path == c.path
       IN  /\ path[1] = GridToWorld(c.startCell[1], c.startCell[2])
           /\ path[Len(path)] = GridToWorld(c.goalCell[1], c.goalCell[2])
           /\ IsWalkable(c.nav, CellOf(c.start)[1], CellOf(c.start)[2])
                  => c.startCell = CellOf(c.start)
           /\ IsWalkable(c.nav, CellOf(c.goal)[1], CellOf(c.goal)[2])
                  => c.goalCell = CellOf(c.goal)
           /\ \A i \in 1..Len(path) :
                  /\ CellOf(path[i]) \in WalkableCells(c.nav)
                  /\ path[i] = GridToWorld(CellOf(path[i])[1], CellOf(path[i])[2])
           /\ \A i \in 1..(Len(path) - 1) :
                  Adjacent(CellOf(path[i]), CellOf(path[i + 1]))

\* a search from a substituted start cell returned a path of three or more
\* waypoints
C10_SubstitutedStartPath ==
    /\ SearchedPath
    /\ hist[1].startCell # CellOf(hist[1].start)
    /\ Len(hist[1].path) >= 3

\* the most recent call got past the cache and resolved its start and goal cells
Resolved == Called /\ hist[1].startCell # NoCell /\ hist[1].goalCell # NoCell
\* the cells a chain of walkable cells links to cell a
ReachableFrom(N, a) == DOMAIN RelaxAll(N, (a :> Cost(0, 0)))
\* no chain of walkable cells links the start cell of the call to its goal cell
NoChain == hist[1].goalCell \notin ReachableFrom(hist[1].nav, hist[1].startCell)

RingDistance(c, d) == Max(Abs(c[1] - d[1]), Abs(c[2] - d[2]))
CentreDist2(c, d) == Dist2(GridToWorld(c[1], c[2]), GridToWorld(d[1], d[2]))
\* the walkable cells within MaxRadius rings of a cell
WalkableNear(N, c) == { w \in WalkableCells(N) : RingDistance(w, c) <= MaxRadius }
\* cell s is a walkable cell within MaxRadius rings of c that no other
\* walkable cell is closer to c than
NearestWalkable(N, c, s) ==
    /\ s \in WalkableNear(N, c)
    /\ \A w \in WalkableCells(N) : CentreDist2(w, c) >= CentreDist2(s, c)
\* the most recent call got past the cache (on a grid that exists)
PastCache == Called /\ ~hist[1].fromCache /\ ~hist[1].nav.grid.null
Unwalkable(N, c) == ~IsWalkable(N, c[1], c[2])

\* C12: when the start (or goal) cell is unwalkable, findPath substitutes a
\* walkable cell within 5 rings of it that no other walkable cell is closer
\* to, by the straight-line distance between cell centres; when there is no
\* walkable cell within 5 rings, findPath returns the empty sequence
C12_NearestSubstituted ==
    PastCache
    => LET c == hist[1]
           s == CellOf(c.start)
           g == CellOf(c.goal)
       IN  /\ (Unwalkable(c.nav, s) /\ WalkableNear(c.nav, s) # {})
                  => (c.startCell # NoCell /\ NearestWalkable(c.nav, s, c.startCell))
           /\ (Unwalkable(c.nav, s) /\ WalkableNear(c.nav, s) = {})
                  => c.path = <<>>
           /\ (c.startCell # NoCell /\ Unwalkable(c.nav, g) /\ WalkableNear(c.nav, g) # {})
                  => (c.goalCell # NoCell /\ NearestWalkable(c.nav, g, c.goalCell))
           /\ (c.startCell # NoCell /\ Unwalkable(c.nav, g) /\ WalkableNear(c.nav, g) = {})
                  => c.path = <<>>

\* the states of the search, from the given one, over at most n passes of the
\* main loop
RECURSIVE SearchRun(_, _, _, _)
SearchRun(N, goal, st, n) ==
    IF st.done \/ n = 0
    THEN <<st>>
    ELSE <<st>> \o SearchRun(N, goal, SearchStep(N, goal, st), n - 1)

NoDuplicates(s) == \A i, j \in 1..Len(s) : s[i] = s[j] => i = j
\* the search made by the most recent call, pass by pass; past the last
\* iteration one more pass finds the open set empty
LastSearchRun ==
    SearchRun(hist[1].nav, hist[1].goalCell,
              StartState(hist[1].startCell, hist[1].goalCell),
              hist[1].nav.gridWidth * hist[1].nav.gridHeight + 1)
Searched == Called /\ hist[1].searched

\* C13: every search ends: each cell is moved to the closed set at most once,
\* the open set never holds two nodes of one cell, and the main loop runs at
\* most gridWidth x gridHeight times
C13_SearchTerminates ==
    Searched
    => LET run == LastSearchRun
           last == run[Len(run)]
       IN  /\ last.done
           /\ Len(last.expanded) <= hist[1].nav.gridWidth * hist[1].nav.gridHeight
           /\ NoDuplicates(last.expanded)
           /\ \A i \in 1..Len(run) :
                  /\ NoDuplicates(run[i].open)
                  /\ \A j \in 1..Len(run[i].open) : run[i].open[j] \notin run[i].closed

\* a search ended without a path after it had expanded more than half the
\* cells of the grid, every walkable cell it could reach
C13_ExhaustedSearch ==
    /\ Searched
    /\ hist[1].path = <<>>
    /\ LET last == LastSearchRun[Len(LastSearchRun)]
       IN  /\ 2 * Len(last.expanded) > hist[1].nav.gridWidth * hist[1].nav.gridHeight
           /\ { last.expanded[i] : i \in 1..Len(last.expanded) }
                  = ReachableFrom(hist[1].nav, hist[1].startCell)

-----------------------------------------------------------------------------
(* Properties of the grid.  A step of a findPath call adds one to calls, a
   step of rebuildGrid adds one to rebuilds *)

FindPathStep == calls' = calls + 1
\* the step built a grid: rebuildGrid, or a findPath call that rebuilt
BuildStep == rebuilds' = rebuilds + 1 \/ (FindPathStep /\ hist'[1].rebuilt)
\* the centre of cell (x, y) lies inside the rectangle of obstacle o expanded
\* by the padding, in half pixels, the border included
CentreInPadded(o, x, y) ==
    /\ BoundsLeft2(o) - 2 * ObstaclePadding <= 2 * x * CellSize + CellSize
    /\ 2 * x * CellSize + CellSize <= BoundsRight2(o) + 2 * ObstaclePadding
    /\ BoundsTop2(o) - 2 * ObstaclePadding <= 2 * y * CellSize + CellSize
    /\ 2 * y * CellSize + CellSize <= BoundsBottom2(o) + 2 * ObstaclePadding
\* the square of cell (x, y) and the padded rectangle of obstacle o have a
\* point in common
CellMeetsPadded(o, x, y) ==
    /\ BoundsLeft2(o) - 2 * ObstaclePadding < 2 * (x + 1) * CellSize
    /\ 2 * x * CellSize <= BoundsRight2(o) + 2 * ObstaclePadding
    /\ BoundsTop2(o) - 2 * ObstaclePadding < 2 * (y + 1) * CellSize
    /\ 2 * y * CellSize <= BoundsBottom2(o) + 2 * ObstaclePadding
GridNow == Nav(grid, gridWidth, gridHeight)
GridBuiltNow == BuildGrid(obstacles, gameConfig.width, gameConfig.height)

\* C14 as stated: after a grid rebuild a cell is unwalkable exactly when its
\* centre lies inside some obstacle rectangle expanded by the padding
C14_UnwalkableIffCentreInside ==
    [][BuildStep
       => \A c \in GridCells(GridNow') :
              Unwalkable(GridNow', c)
                  <=> \E o \in obstacles' : CentreInPadded(o, c[1], c[2])]_vars

\* C14 amended: after a grid rebuild the grid has ceil(width / cellSize) x
\* ceil(height / cellSize) cells, and a cell is unwalkable exactly when its
\* square meets some obstacle rectangle expanded by the padding, wherever
\* the cell's centre lies; with no obstacles every cell is walkable
C14_UnwalkableIffCellMeets ==
    [][BuildStep
       => /\ gridWidth' = GridDim(gameConfig'.width)
          /\ gridHeight' = GridDim(gameConfig'.height)
          /\ ~ grid'.null
          /\ \A c \in GridCells(GridNow') :
                 Unwalkable(GridNow', c)
                     <=> \E o \in obstacles' : CellMeetsPadded(o, c[1], c[2])
          /\ obstacles' = {} => ObstacleFree(GridNow')]_vars

\* rebuildGrid has built a grid with a walkable cell and with an unwalkable
\* cell whose centre lies outside every padded rectangle
C14_CellBesideCentre ==
    /\ rebuilds = 1
    /\ GridNow = GridBuiltNow
    /\ WalkableCells(GridNow) # {}
    /\ \E c \in GridCells(GridNow) :
           /\ Unwalkable(GridNow, c)
           /\ \A o \in obstacles : ~CentreInPadded(o, c[1], c[2])

\* the grid is due at the interval: there is none, or it is as old as the
\* rebuild interval or older
DueAtInterval == grid.null \/ now - lastObstacleUpdate >= ObstacleUpdateInterval
\* the grid is due past the interval
DuePastInterval == grid.null \/ now - lastObstacleUpdate > ObstacleUpdateInterval
\* the step left a grid built from the obstacles of the scene, stamped now
RebuiltByStep == GridNow' = GridBuiltNow /\ lastObstacleUpdate' = now
\* the step left the grid and its timestamp as they were
KeptByStep == GridNow' = GridNow /\ lastObstacleUpdate' = lastObstacleUpdate

\* C15 as stated: a findPath call rebuilds the grid exactly when there is no
\* grid or now - lastBuildTime >= 500 ms, and otherwise leaves the grid and
\* its timestamp unchanged
C15_RebuildAtInterval ==
    [][FindPathStep => IF DueAtInterval THEN RebuiltByStep ELSE KeptByStep]_vars

\* C15 amended: a findPath call rebuilds the grid exactly when there is no
\* grid or now - lastBuildTime > 500 ms; a grid that is 500 ms old or younger
\* is left unchanged with its timestamp, whatever obstacles were added or
\* removed meanwhile
C15_RebuildPastInterval ==
    [][FindPathStep => IF DuePastInterval THEN RebuiltByStep ELSE KeptByStep]_vars

\* a findPath call found a grid exactly 500 ms old and kept it, although the
\* obstacles of the scene had changed
C15_KeptAtInterval ==
    /\ Called
    /\ hist[1].at = now
    /\ now - lastObstacleUpdate = ObstacleUpdateInterval
    /\ GridNow = hist[1].nav
    /\ GridNow # GridBuiltNow

-----------------------------------------------------------------------------
(* Properties of the cover selection.  upd[1] is the most recent update call
   of the level; the scene's obstacles do not change within a level *)

\* the most recent update call is a movement tick
MovementTick == Updated /\ upd[1].op = "updateMovement"
\* the cover obstacle selected before and after the tick, <<>> for null
SelectedBefore == CoverStateBefore(upd[1].enemy).currentObstacle
SelectedAfter == CoverState(upd[1].enemy).currentObstacle
\* the obstacles of the standard size, i.e. all but the boundary walls
StandardObstacles == { o \in obstacles : o.w = ObstacleSize /\ o.h = ObstacleSize }
\* sel is a standard obstacle that no standard obstacle is nearer to pos than
NearestStandard(pos, sel) ==
    /\ sel \in StandardObstacles
    /\ \A o \in StandardObstacles : Dist2(pos, sel) <= Dist2(pos, o)
\* the agent of the tick was farther than 200 px from the selected cover
FarFromSelected ==
    Dist2(upd[1].pos, SelectedBefore[1]) > RecoverDistance * RecoverDistance

\* C16: in a movement tick where the agent has a selected cover obstacle and
\* is more than 200 px away from it, cover selection is run again and the
\* selected obstacle becomes the standard obstacle nearest to the agent
C16_ReselectsWhenFar ==
    (MovementTick /\ upd[1].present /\ SelectedBefore # <<>> /\ FarFromSelected)
    => /\ upd[1].findBestCover
       /\ SelectedAfter # <<>>
       /\ NearestStandard(upd[1].pos, SelectedAfter[1])

\* C17: in a movement tick where the agent has a selected cover obstacle and
\* is within 200 px of it, the tick leaves the selected obstacle unchanged
\* and does not run cover selection, even when another standard obstacle is
\* nearer to the agent
C17_KeepsCoverWhenNear ==
    (MovementTick /\ SelectedBefore # <<>> /\ ~FarFromSelected)
    => (SelectedAfter = SelectedBefore /\ ~upd[1].findBestCover)

\* a tick with a player kept a cover within 200 px although another standard
\* obstacle of the scene was nearer to the agent
C17_KeptFartherCover ==
    /\ MovementTick
    /\ upd[1].present
    /\ SelectedBefore # <<>>
    /\ ~FarFromSelected
    /\ SelectedAfter = SelectedBefore
    /\ \E o \in StandardObstacles :
           Dist2(upd[1].pos, o) < Dist2(upd[1].pos, SelectedBefore[1])

\* C18: whenever findBestCover runs, the selected obstacle has the standard
\* width and height and no standard obstacle of the scene is nearer to the
\* agent; a boundary wall is never selected; the selection is null exactly
\* when the scene has no standard obstacle
C18_NearestStandardCover ==
    (MovementTick /\ upd[1].findBestCover)
    => /\ SelectedAfter = <<>> <=> StandardObstacles = {}
       /\ SelectedAfter # <<>> => NearestStandard(upd[1].pos, SelectedAfter[1])

\* findBestCover selected the nearest of two standard obstacles, the later
\* one in the scene's actors, past a boundary wall that was nearer still
C18_WallNearerThanCover ==
    /\ MovementTick
    /\ upd[1].findBestCover
    /\ SelectedAfter # <<>>
    /\ Cardinality(StandardObstacles) = 2
    /\ SelectedAfter[1] # ActorOrder(StandardObstacles)[1]
    /\ \E w \in obstacles \ StandardObstacles :
           Dist2(upd[1].pos, w) < Dist2(upd[1].pos, SelectedAfter[1])

\* the cooldown after the decrement of the tick
CooldownAfter == CoverState(upd[1].enemy).currentCooldown

\* C19: in every movement tick where a player exists and a cover obstacle is
\* selected, the movement target is the cover position when the cooldown
\* after the tick's decrement is > 0 and the peek position when it is <= 0
C19_CoverOrPeekTarget ==
    (MovementTick /\ upd[1].present /\ SelectedAfter # <<>>)
    => upd[1].target =
          IF CooldownAfter > 0
          THEN <<CalculateCoverPosition(SelectedAfter[1], player.pos)>>
          ELSE <<CalculatePeekPosition(SelectedAfter[1], player.pos)>>

\* a tick with the cooldown running moved to the cover position, which is
\* not the peek position
C19_TakesCover ==
    /\ MovementTick
    /\ upd[1].present
    /\ SelectedAfter # <<>>
    /\ CooldownAfter > 0
    /\ upd[1].target = <<CalculateCoverPosition(SelectedAfter[1], player.pos)>>
    /\ upd[1].target # <<CalculatePeekPosition(SelectedAfter[1], player.pos)>>

\* C20: when the scene has no obstacle usable as cover (none at all, or only
\* boundary walls), every updateMovement tick leaves the agent with no
\* selected cover and with zero velocity; the same holds when no player is
\* present
C20_NoCoverHoldsPosition ==
    (MovementTick /\ (StandardObstacles = {} \/ ~upd[1].present))
    => /\ SelectedAfter = <<>>
       /\ enemies[upd[1].enemy].vel = ZeroVel

-----------------------------------------------------------------------------
(* Properties of applyObstacleAvoidance.  steer[1] is the most recent call:
   the agent's position, the desired velocity, the configuration, the scene's
   obstacles, what detection flagged and the velocity returned *)

AvoidanceCall == Len(steer) > 0 /\ steer[1].op = "applyObstacleAvoidance"
Moving == steer[1].desired.x # 0 \/ steer[1].desired.y # 0
DesiredSize2 ==
    steer[1].desired.x * steer[1].desired.x + steer[1].desired.y * steer[1].desired.y

\* the velocity is the zero vector
IsZeroVelocity(v) == v.speed.num = 0 \/ IsZeroFrame(v.dir)

\* the size of the velocity is num/den times the size of the desired velocity
SizeIsFractionOfDesired(v, num, den) ==
    IF IsZeroFrame(v.dir)
    THEN num * num * DesiredSize2 = 0
    ELSE v.speed.num * v.speed.num * den * den
             = num * num * DesiredSize2 * v.speed.den * v.speed.den

\* the blend of the desired direction and the avoidance vector is the zero
\* vector: they cancel
BlendCancels ==
    /\ steer[1].flagged # {}
    /\ IsZeroFrame(BlendedDirection(
           CalculateAvoidanceVector(steer[1].pos, steer[1].flagged, steer[1].desired,
                                    steer[1].config),
           steer[1].config))

\* the angle between the direction dir, given along and across the desired
\* direction, and the desired direction is at most the angle m: its cosine,
\* along / sqrt(along^2 + across^2), is at least the cosine of m
WithinAngle(dir, m) ==
    LET along2 == SurdMul(dir.along, dir.along, dir.rad)
        size2 == SurdAdd(along2, SurdMul(dir.across, dir.across, dir.rad))
        diff == SurdAdd(SurdScale(m.den * m.den, along2), SurdScale(-(m.cos * m.cos), size2))
    IN  IF m.cos >= 0
        THEN SurdSign(dir.along, dir.rad) >= 0 /\ SurdSign(diff, dir.rad) >= 0
        ELSE SurdSign(dir.along, dir.rad) >= 0 \/ SurdSign(diff, dir.rad) <= 0

\* the velocity is the desired velocity
IsDesired(v, desired) ==
    IF desired.x = 0 /\ desired.y = 0
    THEN IsZeroVelocity(v)
    ELSE /\ v.basis = Unit(desired)
         /\ SurdSign(v.dir.across, v.dir.rad) = 0
         /\ SurdSign(v.dir.along, v.dir.rad) > 0
         /\ v.speed.num * v.speed.num
                = (desired.x * desired.x + desired.y * desired.y) * v.speed.den * v.speed.den

\* C21 as stated: for a nonzero desired velocity the returned vector has the
\* size of the desired velocity, whatever the obstacles and the configuration.
C21_MagnitudePreserved ==
    (AvoidanceCall /\ Moving) => SizeIsFractionOfDesired(steer[1].result, 1, 1)

\* C21: for a nonzero desired velocity the returned vector has the size of
\* the desired velocity, except when the desired direction and the avoidance
\* vector cancel: then its size is avoidanceForce times that of the desired
\* velocity.
C21_MagnitudePreservedUnlessCancelled ==
    (AvoidanceCall /\ Moving)
    => IF BlendCancels
       THEN SizeIsFractionOfDesired(steer[1].result, steer[1].config.avoidanceForce.num,
                                    steer[1].config.avoidanceForce.den)
       ELSE SizeIsFractionOfDesired(steer[1].result, 1, 1)

\* an obstacle straight ahead, avoidanceForce 1/2 and an angle limit that
\* lets the avoidance vector point straight back: the result has half the size
C21_HalvedByFallback ==
    /\ AvoidanceCall
    /\ Moving
    /\ BlendCancels
    /\ steer[1].config.avoidanceForce = Fraction(1, 2)
    /\ SizeIsFractionOfDesired(steer[1].result, 1, 2)
    /\ ~SizeIsFractionOfDesired(steer[1].result, 1, 1)

\* C22: for a nonzero desired velocity the angle between the returned vector
\* and the desired velocity is at most the configured maxAvoidanceAngle.
C22_DeviationWithinMax ==
    (AvoidanceCall /\ Moving)
    => /\ steer[1].result.basis = Unit(steer[1].desired)
       /\ WithinAngle(steer[1].result.dir, steer[1].config.maxAvoidanceAngle)

\* C23: for a nonzero desired velocity the returned vector is not the zero
\* vector, also when the desired direction and the avoidance vector cancel.
C23_NeverFreezes ==
    (AvoidanceCall /\ Moving) => ~IsZeroVelocity(steer[1].result)

\* the blend cancelled and the agent is sent sideways
C23_CancelledBlend ==
    /\ AvoidanceCall
    /\ Moving
    /\ BlendCancels
    /\ steer[1].config.avoidanceForce.num > 0
    /\ ~IsZeroVelocity(steer[1].result)
    /\ SurdSign(steer[1].result.dir.along, steer[1].result.dir.rad) = 0

\* no obstacle of the scene is within avoidanceRadius of the agent
NoneWithinRadius ==
    \A o \in steer[1].obstacles :
        Dist2(steer[1].pos, o)
            > steer[1].config.avoidanceRadius * steer[1].config.avoidanceRadius

\* C24: when detection flags no obstacle the desired velocity is returned
\* unchanged; detection flags none when no obstacle is within avoidanceRadius
\* or the desired velocity is zero.
C24_ClearReturnsDesired ==
    AvoidanceCall
    => /\ (NoneWithinRadius \/ ~Moving) => steer[1].flagged = {}
       /\ steer[1].flagged = {} => IsDesired(steer[1].result, steer[1].desired)

\* an obstacle within the radius but behind the moving agent is not flagged
C24_ObstacleBehindNotFlagged ==
    /\ AvoidanceCall
    /\ Moving
    /\ ~NoneWithinRadius
    /\ steer[1].flagged = {}
    /\ IsDesired(steer[1].result, steer[1].desired)
    /\ steer[1].config.avoidanceForce = Fraction(1, 1)

\* a step of SpecAvoid that is not a findPath call is a call of
\* applyObstacleAvoidance
AvoidanceStep == calls' = calls

AvoidanceInputs(c) == <<c.pos, c.desired, c.config, c.obstacles>>

-----------------------------------------------------------------------------
(* Properties of getDirectionToGoal.  steer[1] is the most recent call: the
   agent's position, the goal, lookAhead, the path findPath returned and the
   direction returned *)

DirectionCall == Len(steer) > 0 /\ steer[1].op = "getDirectionToGoal"
NoDirection == Vec(0, 0)

\* C25: when the agent stands on its goal, findPath returns exactly one
\* waypoint and getDirectionToGoal returns the zero vector, wherever in
\* its cell the agent is.
C25_AtGoalOneWaypointNoDirection ==
    (DirectionCall /\ steer[1].goal = steer[1].pos)
    => /\ Len(steer[1].path) = 1
       /\ steer[1].direction = NoDirection

\* the index of the waypoint the claim names, counted from 0: index
\* min(lookAhead, len - 1), one more when the agent is less than half a cell
\* from that waypoint and the path goes on
ChosenIndex ==
    LET first == Min(steer[1].lookAhead, Len(steer[1].path) - 1)
    IN  IF /\ 4 * Dist2(steer[1].pos, steer[1].path[first + 1]) < CellSize * CellSize
           /\ first + 1 < Len(steer[1].path)
        THEN first + 1
        ELSE first
ChosenWaypoint == steer[1].path[ChosenIndex + 1]

\* v is a positive multiple of w
SameHeading(v, w) == v.x * w.y = v.y * w.x /\ v.x * w.x + v.y * w.y > 0

-----------------------------------------------------------------------------
(* What the behaviour's update calls write.  A step that changes `updating'
   is one call of updateMovement (with the getDirectionToGoal, findPath and
   applyObstacleAvoidance calls it makes) or of updateShooting *)

UpdateCall == updating' # updating
\* enemy e is the same but for its velocity
OnlyVelWritten(e) == enemies'[e] = [enemies[e] EXCEPT !.vel = enemies'[e].vel]

\* C26: no update call of the behaviour (updateMovement with the path and
\* avoidance calls it makes, updateShooting) changes the position of any
\* agent; the only field of an agent that a call writes is its velocity
C26_OnlyVelocityWritten ==
    [][UpdateCall =>
          /\ DOMAIN enemies' = DOMAIN enemies
          /\ \A e \in DOMAIN enemies : OnlyVelWritten(e)]_vars

\* a movement tick planned a path, steered the agent and left it in place
C26_SteeredInPlace ==
    /\ MovementTick /\ upd[1].present
    /\ upd[1].target # <<>>
    /\ UsesPathfinding(upd[1].pos, upd[1].target[1])
    /\ updating = upd[1].enemy
    /\ ~enemies[upd[1].enemy].vel.zero
    /\ enemies[upd[1].enemy].pos = upd[1].pos

-----------------------------------------------------------------------------
(* What findPath leaves in the cache *)

\* C28: after a findPath call that was not served from the cache, the cache
\* holds an entry under the call's (start cell, goal cell) key and its path
\* is exactly the returned sequence, the empty one included
C28_ResultStored ==
    PastCache => (HasEntryNow /\ EntryNow.path = hist[1].path)

\* the keys of a cache
Keys(cache) == { cache[i].key : i \in 1..Len(cache) }
\* the step is a findPath call that stored its result
StoreStep ==
    /\ hist' # hist
    /\ ~hist'[1].fromCache
    /\ hist'[1].startCell # NoCell /\ hist'[1].goalCell # NoCell
StoredKey == CacheKey(hist'[1].start, hist'[1].goal)
\* storing the result made the cache larger than its capacity
PushedPast ==
    /\ StoreStep
    /\ StoredKey \notin Keys(pathCache)
    /\ Len(pathCache) + 1 > CacheLimit
\* the entries that the step removed from the cache
Evicted == { i \in 1..Len(pathCache) : pathCache[i].key \notin Keys(pathCache') }
OldestTimestamp(i) ==
    \A j \in 1..Len(pathCache) : pathCache[i].timestamp <= pathCache[j].timestamp

\* C29: when storing a result pushes the cache past its capacity, exactly
\* one entry is evicted, no entry of the cache has an older timestamp than
\* the evicted one, and the entry just stored stays in the cache
C29_EvictsOldest ==
    [][PushedPast =>
          /\ Cardinality(Evicted) = 1
          /\ \A i \in Evicted : OldestTimestamp(i)
          /\ StoredKey \in Keys(pathCache')]_vars

-----------------------------------------------------------------------------
(* Properties of moveTo.  steer[1] is the most recent call: where the agent
   was, the target, the path the planner returned and the size of the
   velocity written; the velocity itself is the agent's *)

MoveToCall == Len(steer) > 0 /\ steer[1].op = "moveTo"
MovedAgent == enemies[steer[1].enemy]
TargetDist2 == Dist2(steer[1].pos, steer[1].target)

\* C31: moveTo gives the agent a nonzero velocity only when its distance to
\* the target is more than 5 px; at a distance of 5 px or less the velocity
\* is zero
C31_ZeroWithinDeadzone ==
    MoveToCall =>
       /\ ~MovedAgent.vel.zero => TargetDist2 > Deadzone * Deadzone
       /\ TargetDist2 <= Deadzone * Deadzone => MovedAgent.vel.zero

\* C31, amended: moveTo gives the agent a zero velocity exactly when its
\* distance to the target is less than 5 px; at 5 px the agent moves
C31_ZeroBelowDeadzone ==
    MoveToCall => (MovedAgent.vel.zero <=> TargetDist2 < Deadzone * Deadzone)

\* the agent was 5 px from the target and is moving
C31_MovesAtDeadzone ==
    /\ MoveToCall
    /\ TargetDist2 = Deadzone * Deadzone
    /\ ~MovedAgent.vel.zero
    /\ steer[1].speed.num = MoveSpeed * steer[1].speed.den

-----------------------------------------------------------------------------
(* Properties of detectObstaclesAhead.  steer[1].flagged is what the most
   recent call of applyObstacleAvoidance detected *)

\* the vector from the agent of the call to obstacle o, and its size
ToObstacle(o) == Vec(o.x - steer[1].pos.x, o.y - steer[1].pos.y)
WithinRadius(o) ==
    Dist2(steer[1].pos, o) <= steer[1].config.avoidanceRadius * steer[1].config.avoidanceRadius
\* the travel direction and the direction to o make a positive dot product
InTravelDirection(o) ==
    Dot(steer[1].desired.x, steer[1].desired.y, ToObstacle(o).x, ToObstacle(o).y) > 0
\* the distance to o is at most 60% of avoidanceRadius
WithinNearRadius(o) == 5 * Size(ToObstacle(o)) <= 3 * steer[1].config.avoidanceRadius

\* C32: for a nonzero desired velocity, the flagged actors are exactly the
\* scene's obstacles whose distance to the agent is at most avoidanceRadius
\* and which lie in the travel direction (positive dot product) or within
\* 60% of avoidanceRadius
C32_FlaggedExactly ==
    (AvoidanceCall /\ Moving)
    => /\ steer[1].flagged \subseteq steer[1].obstacles
       /\ \A o \in steer[1].obstacles :
            o \in steer[1].flagged
            <=> (WithinRadius(o) /\ (InTravelDirection(o) \/ WithinNearRadius(o)))

\* a call flagged an obstacle behind the agent, at exactly 60% of the radius
C32_FlaggedBehindByNearRule ==
    /\ AvoidanceCall /\ Moving
    /\ \E o \in steer[1].flagged :
          /\ ~InTravelDirection(o)
          /\ 5 * Size(ToObstacle(o)) = 3 * steer[1].config.avoidanceRadius

-----------------------------------------------------------------------------
(* Properties of calculateAvoidanceVector.  The summed repulsion of the most
   recent call has the coordinates (RepulsionAlong, RepulsionAcross), up to
   a positive factor, along the desired direction and across it *)

RepulsionSum == SumRepulsion(steer[1].pos, steer[1].flagged, steer[1].config.avoidanceRadius)
RepulsionAlong0 ==
    RepulsionSum.x * Unit(steer[1].desired).x + RepulsionSum.y * Unit(steer[1].desired).y
RepulsionAcross0 ==
    RepulsionSum.y * Unit(steer[1].desired).x - RepulsionSum.x * Unit(steer[1].desired).y
RepulsionAlong == RepulsionAlong0 \div Gcd(RepulsionAlong0, RepulsionAcross0)
RepulsionAcross == RepulsionAcross0 \div Gcd(RepulsionAlong0, RepulsionAcross0)
RepulsionSize2 == RepulsionAlong * RepulsionAlong + RepulsionAcross * RepulsionAcross
\* the call summed a repulsion that is not zero, with a force that is not zero
Repelled ==
    /\ AvoidanceCall /\ Moving
    /\ steer[1].flagged # {}
    /\ (RepulsionSum.x # 0 \/ RepulsionSum.y # 0)
    /\ steer[1].config.avoidanceForce.num # 0
\* the sign of cos(angle between repulsion and desired direction) minus
\* cos(maxAvoidanceAngle)
CosineOverMax ==
    SurdSign(Surd(RepulsionAlong * steer[1].config.maxAvoidanceAngle.den,
                  -steer[1].config.maxAvoidanceAngle.cos), RepulsionSize2)
\* the vector that calculateAvoidanceVector returned
ReturnedAvoidance ==
    CalculateAvoidanceVector(steer[1].pos, steer[1].flagged, steer[1].desired, steer[1].config)
\* the repulsion direction scaled to avoidanceForce
ScaledRepulsion ==
    FrameVector(Surd(0, steer[1].config.avoidanceForce.num * RepulsionAlong),
                Surd(0, steer[1].config.avoidanceForce.num * RepulsionAcross),
                steer[1].config.avoidanceForce.den * RepulsionSize2, RepulsionSize2)

\* C33: a repulsion direction whose angle to the desired direction is below
\* maxAvoidanceAngle is returned unrotated, scaled to avoidanceForce: the
\* rotation by maxAvoidanceAngle is applied only beyond that angle
C33_WithinMaxUnrotated ==
    (Repelled /\ CosineOverMax > 0)
    => Reduced(ReturnedAvoidance) = Reduced(ScaledRepulsion)

-----------------------------------------------------------------------------
(* The returned path and the grid at the time of the return, hist[1].nav *)

\* p is the centre of a cell that is walkable in grid N
WalkableCentre(N, p) ==
    /\ p = GridToWorld(WorldToGrid(p).x, WorldToGrid(p).y)
    /\ IsWalkable(N, WorldToGrid(p).x, WorldToGrid(p).y)

\* C34: every waypoint of a non-empty path that findPath returns, searched
\* for or served from the cache, is the centre of a cell that is walkable in
\* the grid as it is when the call returns
C34_PathOnWalkableCells ==
    (Called /\ Len(hist[1].path) > 0)
    => \A i \in 1..Len(hist[1].path) : WalkableCentre(hist[1].nav, hist[1].path[i])

-----------------------------------------------------------------------------
(* The speed that moveTo gives the agent *)

AtMoveSpeed == steer[1].speed.num = MoveSpeed * steer[1].speed.den
Stopped == steer[1].speed.num = 0

\* C35: the velocity that moveTo writes is zero or has the size moveSpeed,
\* and beyond the deadzone it has the size moveSpeed: also when the path
\* planner gave no direction and when obstacle avoidance steered
C35_ZeroOrMoveSpeed ==
    MoveToCall
    => /\ Stopped \/ AtMoveSpeed
       /\ Stopped <=> MovedAgent.vel.zero
       /\ TargetDist2 > Deadzone * Deadzone => AtMoveSpeed

\* the path planner was asked and returned no path; the agent heads
\* straight for the target at moveSpeed
C35_FallsBackToDirect ==
    /\ MoveToCall
    /\ steer[1].plans
    /\ steer[1].path = <<>>
    /\ AtMoveSpeed
    /\ MovedAgent.vel.to = steer[1].target

-----------------------------------------------------------------------------
(* The level count and the player's death *)

\* the player of the current activation of the level scene has died
DiedInActivation == levelScene.name = "level" /\ levelScene.killed

\* C36: in an activation of the level scene in which the player has died,
\* the LevelManager's level stays at the 1 that the death reset it to,
\* whatever handlers run afterwards
C36_NoLevelUpAfterDeath == DiedInActivation => levelScene.currentLevel = 1

-----------------------------------------------------------------------------
(* isWalkable outside the grid *)

\* the cell coordinates looked at: the grid and a margin around it
MarginCells == (-(MaxRadius + 2)..(gridWidth + MaxRadius + 1)) \X
               (-(MaxRadius + 2)..(gridHeight + MaxRadius + 1))

InsideGrid(N, c) == c[1] >= 0 /\ c[1] < N.gridWidth /\ c[2] >= 0 /\ c[2] < N.gridHeight

\* the call searched from a cell of the grid that was walkable, or not at all
EndpointFailsClosed(c, cell) ==
    cell # NoCell => InsideGrid(c.nav, cell) /\ IsWalkable(c.nav, cell[1], cell[2])

\* the point's own cell is not the one the call searched with
Substituted(c, p, cell) == cell = NoCell \/ cell # CellOf(p)

\* C37: isWalkable is false for every cell outside the grid and for every
\* cell while there is no grid; a findPath call whose start or goal lies
\* in a cell outside the grid searches from a substituted walkable cell
\* of the grid or does not search
C37_FailsClosed ==
    /\ \A c \in MarginCells :
          (grid.null \/ ~InsideGrid(Nav(grid, gridWidth, gridHeight), c)) =>
              ~IsWalkable(Nav(grid, gridWidth, gridHeight), c[1], c[2])
    /\ \A i \in 1..Len(hist) :
          /\ EndpointFailsClosed(hist[i], hist[i].startCell)
          /\ EndpointFailsClosed(hist[i], hist[i].goalCell)
          /\ ~InsideGrid(hist[i].nav, CellOf(hist[i].start)) =>
                Substituted(hist[i], hist[i].start, hist[i].startCell)
          /\ ~InsideGrid(hist[i].nav, CellOf(hist[i].goal)) =>
                Substituted(hist[i], hist[i].goal, hist[i].goalCell)
          /\ hist[i].searched => hist[i].startCell # NoCell /\ hist[i].goalCell # NoCell

\* a call from a point left of the world to a point right of it was searched
\* between two cells of the grid and found a path
C37_OutsideSubstituted ==
    /\ Len(hist) > 0
    /\ hist[1].start.x < 0
    /\ hist[1].goal.x >= gameConfig.width
    /\ hist[1].searched
    /\ hist[1].path # <<>>
    /\ InsideGrid(hist[1].nav, hist[1].startCell)
    /\ InsideGrid(hist[1].nav, hist[1].goalCell)

\* a call from a point further outside than findNearestWalkable looks, in
\* a world with walkable cells, gave up without a search
GaveUpOutside ==
    /\ Len(hist) > 0
    /\ obstacles = {}
    /\ ~InsideGrid(hist[1].nav, CellOf(hist[1].start))
    /\ ~hist[1].fromCache
    /\ ~hist[1].searched
    /\ hist[1].startCell = NoCell
    /\ hist[1].path = <<>>

====
